---- MODULE Spec2Model ----
(***************************************************************************)
(* croptop: the CPU sampling engine of the collector package.              *)
(*                                                                         *)
(* The repository carries two generations of the CPU collector:            *)
(*   - internal/collector/cpu.go       (calculateUsage, no context), and   *)
(*   - unnamed/part_000 (lines 341-746, calculateUsageWithValidation,      *)
(*     every read guarded by a 3 s context).                               *)
(* Both work on the CPUCache of internal/models/system.go (lines 40-210).  *)
(* Definitions that model the context generation carry the suffix Ctx.     *)
(*                                                                         *)
(* Numbers: uint64 counters are WordBits wide (arithmetic % Modulus);      *)
(* a float64 percentage is the exact ratio [num, den] in lowest terms;     *)
(* times are milliseconds since the collector was created.                 *)
(***************************************************************************)
EXTENDS Integers, Sequences, FiniteSets, TLC

\* ------------------------------------------------------------------ bounds
WordBits == 12
Modulus == 2 ^ WordBits
MaxTick == 3
NumCPU == 2
MaxWork == 1
MaxAdvances == 2
MaxCalls == 3

\* ------------------------------------------------- CPUTimes and percentages
CPUTimes == [Total : 0 .. Modulus - 1, Idle : 0 .. Modulus - 1]

ZeroTimes == [Total |-> 0, Idle |-> 0]

RECURSIVE GCD(_, _)
GCD(a, b) == IF b = 0 THEN a ELSE GCD(b, a % b)

\* float64(n) / float64(d), d > 0, as an exact ratio in lowest terms
Ratio(n, d) == LET g == GCD(n, d) IN [num |-> n \div g, den |-> d \div g]

Percent(p) == [num |-> p, den |-> 1]

\* uint64 subtraction
SubU64(a, b) == (a - b) % Modulus

calculateUsage_noClamp(previous, current) ==
    LET totalDiff == SubU64(current.Total, previous.Total)
        idleDiff == SubU64(current.Idle, previous.Idle)
    IN  IF totalDiff = 0 THEN Percent(0)
        ELSE Ratio(100 * SubU64(totalDiff, idleDiff), totalDiff)

calculateUsage_idleShare(previous, current) ==
    LET totalDiff == SubU64(current.Total, previous.Total)
        idleDiff == SubU64(current.Idle, previous.Idle)
    IN  IF totalDiff = 0 THEN Percent(0)
        ELSE LET usage == Ratio(100 * idleDiff, totalDiff)
             IN  IF usage.num < 0 THEN Percent(0)
                 ELSE IF usage.num > 100 * usage.den THEN Percent(100)
                 ELSE usage

calculateUsage_stalledIsBusy(previous, current) ==
    LET totalDiff == SubU64(current.Total, previous.Total)
        idleDiff == SubU64(current.Idle, previous.Idle)
    IN  IF totalDiff = 0 THEN Percent(100)
        ELSE LET usage == Ratio(100 * SubU64(totalDiff, idleDiff), totalDiff)
             IN  IF usage.num < 0 THEN Percent(0)
                 ELSE IF usage.num > 100 * usage.den THEN Percent(100)
                 ELSE usage

calculateUsage(previous, current) ==
    LET totalDiff == SubU64(current.Total, previous.Total)
        idleDiff == SubU64(current.Idle, previous.Idle)
    IN  IF totalDiff = 0 THEN Percent(0)
        ELSE LET usage == Ratio(100 * SubU64(totalDiff, idleDiff), totalDiff)
             IN  IF usage.num < 0 THEN Percent(0)
                 ELSE IF usage.num > 100 * usage.den THEN Percent(100)
                 ELSE usage

calculateUsageWithValidation(previous, current) ==
    IF current.Total <= previous.Total THEN Percent(0)
    ELSE LET totalDiff == SubU64(current.Total, previous.Total)
             idleDiff == SubU64(current.Idle, previous.Idle)
         IN  IF totalDiff = 0 \/ idleDiff > totalDiff THEN Percent(0)
             ELSE LET usage == Ratio(100 * SubU64(totalDiff, idleDiff), totalDiff)
                  IN  IF usage.num < 0 THEN Percent(0)
                      ELSE IF usage.num > 100 * usage.den THEN Percent(100)
                      ELSE usage

\* ------------------------------------------------------------------ time
\* time.Time{} (a timestamp never set)
ZeroTime == -1

HourMs == 3600 * 1000
ModelCacheDuration == 24 * HourMs
FrequencyCacheDuration == 30 * 1000
TemperatureCacheDuration == 5 * 1000
UsageCacheDuration == 1 * 1000

\* timeDiff < 0.1 seconds
MinSampleGap == 100

\* context.WithTimeout(context.Background(), 3*time.Second)
CtxTimeout == 3 * 1000

\* time.Since saturates at the largest Duration for the zero time
MaxDuration == 2 * ModelCacheDuration

Since(stamp, t) == IF stamp = ZeroTime THEN MaxDuration ELSE t - stamp

\* ------------------------------------------------------- counter names
CoreKey(i) == "cpu" \o ToString(i)

CoreKeys == {CoreKey(i) : i \in 0 .. NumCPU - 1}

CounterNames == {"cpu"} \cup CoreKeys

EmptyStats == [k \in {} |-> ZeroTimes]

\* m[k] of a Go map: the zero value for a missing key
Lookup(m, k) == IF k \in DOMAIN m THEN m[k] ELSE ZeroTimes

\* ---------------------------------------------------------------- CPUCache
NewCPUCache ==
    [model |-> "", modelTime |-> ZeroTime,
     frequency |-> 0, frequencyTime |-> ZeroTime,
     temperature |-> 0, temperatureTime |-> ZeroTime,
     previousStats |-> EmptyStats, previousTime |-> ZeroTime,
     cachedUsage |-> Percent(0), cachedCoreUsages |-> <<>>,
     usageTime |-> ZeroTime]

IsModelCacheValid(c, t) ==
    c.model # "" /\ Since(c.modelTime, t) < ModelCacheDuration

IsFrequencyCacheValid(c, t) ==
    c.frequency # 0 /\ Since(c.frequencyTime, t) < FrequencyCacheDuration

IsTemperatureCacheValid(c, t) ==
    c.temperature # 0 /\ Since(c.temperatureTime, t) < TemperatureCacheDuration

IsUsageCacheValid(c, t) ==
    c.cachedUsage # Percent(0) /\ Since(c.usageTime, t) < UsageCacheDuration

SetCachedModel(c, model, t) == [c EXCEPT !.model = model, !.modelTime = t]

SetCachedFrequency_renewsModel(c, frequency, t) ==
    [c EXCEPT !.frequency = frequency, !.frequencyTime = t, !.modelTime = t]

SetCachedFrequency(c, frequency, t) ==
    [c EXCEPT !.frequency = frequency, !.frequencyTime = t]

SetCachedTemperature(c, temp, t) ==
    [c EXCEPT !.temperature = temp, !.temperatureTime = t]

SetCachedUsage(c, usage, coreUsages, t) ==
    [c EXCEPT !.cachedUsage = usage, !.cachedCoreUsages = coreUsages,
              !.usageTime = t]

GetPreviousStats(c) == [k \in DOMAIN c.previousStats |-> c.previousStats[k]]

SetPreviousStats_merge(c, stats, t) ==
    [c EXCEPT !.previousStats =
                  [k \in DOMAIN stats \cup DOMAIN c.previousStats |->
                      IF k \in DOMAIN stats THEN stats[k] ELSE c.previousStats[k]],
              !.previousTime = t]

SetPreviousStats(c, stats, t) ==
    [c EXCEPT !.previousStats = stats, !.previousTime = t]

\* not in the sources: "no previous raw sample" of the specification
HasPreviousStats(c) == DOMAIN c.previousStats # {}

Clear_keepSample(c) ==
    [c EXCEPT !.model = "", !.frequency = 0, !.temperature = 0,
              !.cachedUsage = Percent(0), !.cachedCoreUsages = <<>>]

Clear(c) ==
    [c EXCEPT !.model = "", !.frequency = 0, !.temperature = 0,
              !.cachedUsage = Percent(0), !.cachedCoreUsages = <<>>,
              !.previousStats = EmptyStats]

GetTimeSinceLastUsageUpdate(c, t) == Since(c.previousTime, t)

\* ------------------------------------------------------------ raw readers
\* One read of /proc/cpuinfo: err = the file could not be opened or scanned;
\* model/freq = what the scan found ("Unknown CPU" / 0 for a missing key).
InfoReads ==
    {[err |-> TRUE, model |-> "Unknown CPU", freq |-> 0],
     [err |-> FALSE, model |-> "Unknown CPU", freq |-> 0],
     [err |-> FALSE, model |-> "Ryzen 5", freq |-> 2400],
     [err |-> FALSE, model |-> "Ryzen 5", freq |-> 3000]}

\* cpu.go getCPUInfo has no error result: a failed read gives the defaults
getCPUInfo(info) ==
    IF info.err THEN [model |-> "Unknown CPU", freq |-> 0]
    ELSE [model |-> info.model, freq |-> info.freq]

\* ctxDone: the context was done at a check inside the scan loop
getCPUInfoCtx(info, ctxDone) ==
    IF info.err \/ ctxDone
    THEN [model |-> "Unknown CPU", freq |-> 0, err |-> TRUE]
    ELSE [model |-> info.model, freq |-> info.freq, err |-> FALSE]

\* One probe of the temperature sensors: present = some sensor file could be
\* read and parsed, raw = the number in it.  Temperatures are kept in
\* millidegrees (45.5 degrees = 45500).
SensorReads ==
    {[present |-> FALSE, raw |-> 0],
     [present |-> TRUE, raw |-> 0],
     [present |-> TRUE, raw |-> 45500]}

getCPUTemperature(probe) ==
    IF ~probe.present THEN 0
    ELSE IF probe.raw > 1000 THEN probe.raw
    ELSE probe.raw * 1000

readTemperatureFromPath(probe) ==
    IF ~probe.present THEN [temp |-> 0, err |-> TRUE]
    ELSE IF probe.raw > 1000 THEN [temp |-> probe.raw, err |-> FALSE]
    ELSE IF probe.raw < 0 \/ probe.raw > 150 THEN [temp |-> 0, err |-> TRUE]
    ELSE [temp |-> probe.raw * 1000, err |-> FALSE]

\* ctxDone: the context was done at the check before the first sensor path
getCPUTemperatureCtx(probe, ctxDone) ==
    IF ctxDone THEN [temp |-> 0, err |-> TRUE]
    ELSE readTemperatureFromPath(probe)

\* One read of /proc/stat.  kernel = the counters the kernel holds, ok = the
\* file could be read, bad = the counter whose line is truncated or malformed
\* ("none": every line is well formed).  A record is kept if its total > 0.
NoLine == "none"

BadLines == {NoLine, "cpu", CoreKey(NumCPU - 1)}

ParsedLines(kernel, bad) ==
    LET kept == {k \in DOMAIN kernel : k # bad /\ kernel[k].Total > 0}
    IN  [k \in kept |-> kernel[k]]

\* cpu.go: nil (an empty map) when the file cannot be read
getCurrentCPUStats(kernel, ok, bad) ==
    IF ok THEN ParsedLines(kernel, bad) ELSE EmptyStats

getCurrentCPUStatsCtx(kernel, ok, bad) ==
    IF ok THEN [stats |-> ParsedLines(kernel, bad), err |-> FALSE]
    ELSE [stats |-> EmptyStats, err |-> TRUE]

\* ---------------------------------------------- cpu.go: the cached families
\* Each operator takes the cache c and the time t of the call and returns the
\* cache after the call (c), what the call returned, and for every returned
\* value where it came from ("cache", "raw" or "default").
getCPUCachedInfo(c, t, info) ==
    LET fresh == getCPUInfo(info)
    IN  IF IsModelCacheValid(c, t)
        THEN IF IsFrequencyCacheValid(c, t)
             THEN [c |-> c, model |-> c.model, freq |-> c.frequency,
                   modelFrom |-> "cache", freqFrom |-> "cache"]
             ELSE [c |-> SetCachedFrequency(c, fresh.freq, t),
                   model |-> c.model, freq |-> fresh.freq,
                   modelFrom |-> "cache", freqFrom |-> "raw"]
        ELSE [c |-> SetCachedFrequency(SetCachedModel(c, fresh.model, t),
                                       fresh.freq, t),
              model |-> fresh.model, freq |-> fresh.freq,
              modelFrom |-> "raw", freqFrom |-> "raw"]

getCachedTemperature(c, t, probe) ==
    IF IsTemperatureCacheValid(c, t)
    THEN [c |-> c, temp |-> c.temperature, tempFrom |-> "cache"]
    ELSE LET temperature == getCPUTemperature(probe)
         IN  [c |-> SetCachedTemperature(c, temperature, t),
              temp |-> temperature, tempFrom |-> "raw"]

\* make([]float64, n)
Zeros(n) == [i \in 1 .. n |-> Percent(0)]

Max(a, b) == IF a > b THEN a ELSE b

\* the order in which a range over the map visits the per-core keys
Orders ==
    {o \in [1 .. NumCPU -> 0 .. NumCPU - 1] :
        \A i, j \in 1 .. NumCPU : i # j => o[i] # o[j]}

RECURSIVE CoreUsages(_, _, _, _)
CoreUsages(previousStats, currentStats, order, i) ==
    IF i > Len(order) THEN <<>>
    ELSE LET key == CoreKey(order[i])
             rest == CoreUsages(previousStats, currentStats, order, i + 1)
         IN  IF key \in DOMAIN currentStats /\ key \in DOMAIN previousStats
             THEN <<calculateUsage(previousStats[key], currentStats[key])>> \o rest
             ELSE rest

\* the (previous, current) pairs one delta computation subtracts: the key
\* looked up on each side and whether that lookup found an entry
DeltaPairs(previousStats, currentStats) ==
    {[prevKey |-> "cpu", curKey |-> "cpu",
      prevRead |-> "cpu" \in DOMAIN previousStats,
      curRead |-> "cpu" \in DOMAIN currentStats]}
    \cup
    {[prevKey |-> k, curKey |-> k, prevRead |-> TRUE, curRead |-> TRUE] :
        k \in (DOMAIN currentStats \cap DOMAIN previousStats) \cap CoreKeys}

NoPairs == {}

getCachedCPUUsage(c, t, currentStats, order) ==
    IF IsUsageCacheValid(c, t)
    THEN [c |-> c, usage |-> c.cachedUsage, cores |-> c.cachedCoreUsages,
          branch |-> "cached", readStat |-> FALSE, pairs |-> NoPairs,
          previousUsed |-> EmptyStats]
    ELSE IF ~HasPreviousStats(c)
    THEN [c |-> SetPreviousStats(c, currentStats, t),
          usage |-> Percent(0),
          cores |-> Zeros(Max(Cardinality(DOMAIN currentStats) - 1, 0)),
          branch |-> "seed", readStat |-> TRUE, pairs |-> NoPairs,
          previousUsed |-> EmptyStats]
    ELSE LET previousStats == GetPreviousStats(c)
         IN  IF GetTimeSinceLastUsageUpdate(c, t) < MinSampleGap
             THEN [c |-> c, usage |-> c.cachedUsage,
                   cores |-> c.cachedCoreUsages,
                   branch |-> "tooSoon", readStat |-> TRUE, pairs |-> NoPairs,
                   previousUsed |-> EmptyStats]
             ELSE LET overallUsage == calculateUsage(Lookup(previousStats, "cpu"),
                                                     Lookup(currentStats, "cpu"))
                      coreUsages == CoreUsages(previousStats, currentStats, order, 1)
                  IN  [c |-> SetCachedUsage(SetPreviousStats(c, currentStats, t),
                                            overallUsage, coreUsages, t),
                       usage |-> overallUsage, cores |-> coreUsages,
                       branch |-> "delta", readStat |-> TRUE,
                       pairs |-> DeltaPairs(previousStats, currentStats),
                       previousUsed |-> previousStats]

\* ------------------------------------- part_000: the families under a context
\* deadline = the time at which the context of this getCPUStats call is done;
\* dur = how long the raw read of this family takes if it is made.  Each
\* operator also returns t, the time at which it returns.
\* dur: the time the raw read takes; cut: a read that outlasts the deadline
\* meets the done context in its scan loop (it ends in the last Scan
\* otherwise)
getCPUCachedInfoCtx(c, t, deadline, info, dur, cut) ==
    LET fresh == getCPUInfoCtx(info, cut /\ t + dur >= deadline)
    IN  IF IsModelCacheValid(c, t)
        THEN IF IsFrequencyCacheValid(c, t)
             THEN [c |-> c, t |-> t, model |-> c.model, freq |-> c.frequency,
                   modelFrom |-> "cache", freqFrom |-> "cache"]
             ELSE IF t >= deadline
             THEN [c |-> c, t |-> t, model |-> c.model, freq |-> c.frequency,
                   modelFrom |-> "cache", freqFrom |-> "cache"]
             ELSE IF ~fresh.err
             THEN [c |-> SetCachedFrequency(c, fresh.freq, t + dur),
                   t |-> t + dur, model |-> fresh.model, freq |-> fresh.freq,
                   modelFrom |-> "raw", freqFrom |-> "raw"]
             ELSE [c |-> c, t |-> t + dur, model |-> c.model,
                   freq |-> c.frequency,
                   modelFrom |-> "cache", freqFrom |-> "cache"]
        ELSE IF t >= deadline
        THEN [c |-> c, t |-> t, model |-> "Unknown CPU", freq |-> 0,
              modelFrom |-> "default", freqFrom |-> "default"]
        ELSE IF fresh.err
        THEN [c |-> c, t |-> t + dur, model |-> "Unknown CPU", freq |-> 0,
              modelFrom |-> "default", freqFrom |-> "default"]
        ELSE [c |-> SetCachedFrequency(
                        SetCachedModel(c, fresh.model, t + dur),
                        fresh.freq, t + dur),
              t |-> t + dur, model |-> fresh.model, freq |-> fresh.freq,
              modelFrom |-> "raw", freqFrom |-> "raw"]

getCachedTemperatureCtx(c, t, deadline, probe, dur) ==
    IF IsTemperatureCacheValid(c, t)
    THEN [c |-> c, t |-> t, temp |-> c.temperature, tempFrom |-> "cache"]
    ELSE IF t >= deadline
    THEN [c |-> c, t |-> t, temp |-> 0, tempFrom |-> "default"]
    ELSE LET r == getCPUTemperatureCtx(probe, FALSE)
         IN  IF r.err
             THEN [c |-> c, t |-> t + dur, temp |-> 0, tempFrom |-> "default"]
             ELSE [c |-> SetCachedTemperature(c, r.temp, t + dur),
                   t |-> t + dur, temp |-> r.temp, tempFrom |-> "raw"]

RECURSIVE CoreUsagesCtx(_, _, _)
CoreUsagesCtx(previousStats, currentStats, i) ==
    IF i >= NumCPU THEN <<>>
    ELSE LET cpuKey == CoreKey(i)
             rest == CoreUsagesCtx(previousStats, currentStats, i + 1)
         IN  IF cpuKey \in DOMAIN currentStats /\ cpuKey \in DOMAIN previousStats
             THEN <<calculateUsageWithValidation(previousStats[cpuKey],
                                                 currentStats[cpuKey])>> \o rest
             ELSE rest

getCachedCPUUsageCtx(c, t, deadline, read, dur) ==
    IF IsUsageCacheValid(c, t)
    THEN [c |-> c, t |-> t, usage |-> c.cachedUsage,
          cores |-> c.cachedCoreUsages,
          branch |-> "cached", readStat |-> FALSE, pairs |-> NoPairs,
          previousUsed |-> EmptyStats]
    ELSE IF t >= deadline
    THEN [c |-> c, t |-> t, usage |-> Percent(0), cores |-> <<>>,
          branch |-> "timeout", readStat |-> FALSE, pairs |-> NoPairs,
          previousUsed |-> EmptyStats]
    ELSE IF read.err
    THEN [c |-> c, t |-> t + dur, usage |-> Percent(0), cores |-> <<>>,
          branch |-> "error", readStat |-> TRUE, pairs |-> NoPairs,
          previousUsed |-> EmptyStats]
    ELSE LET currentStats == read.stats
             t2 == t + dur
         IN
         IF ~HasPreviousStats(c)
         THEN [c |-> SetPreviousStats(c, currentStats, t2), t |-> t2,
               usage |-> Percent(0),
               cores |-> Zeros(Max(Cardinality(DOMAIN currentStats) - 1, 0)),
               branch |-> "seed", readStat |-> TRUE, pairs |-> NoPairs,
               previousUsed |-> EmptyStats]
         ELSE LET previousStats == GetPreviousStats(c)
              IN  IF GetTimeSinceLastUsageUpdate(c, t2) < MinSampleGap
                  THEN [c |-> c, t |-> t2, usage |-> c.cachedUsage,
                        cores |-> c.cachedCoreUsages,
                        branch |-> "tooSoon", readStat |-> TRUE,
                        pairs |-> NoPairs, previousUsed |-> EmptyStats]
                  ELSE LET overallUsage ==
                               calculateUsageWithValidation(
                                   Lookup(previousStats, "cpu"),
                                   Lookup(currentStats, "cpu"))
                           coreUsages ==
                               CoreUsagesCtx(previousStats, currentStats, 0)
                       IN  [c |-> SetCachedUsage(
                                      SetPreviousStats(c, currentStats, t2),
                                      overallUsage, coreUsages, t2),
                            t |-> t2,
                            usage |-> overallUsage, cores |-> coreUsages,
                            branch |-> "delta", readStat |-> TRUE,
                            pairs |-> DeltaPairs(previousStats, currentStats),
                            previousUsed |-> previousStats]

\* ------------------------------------------------------------ the state
VARIABLES
    calcPrev,      \* calculator under test: the previous sample
    calcCur,       \* calculator under test: the current sample
    calcUsage,     \* result of calculateUsage, NoResult before the call
    calcValidated, \* result of calculateUsageWithValidation, NoResult before
    generation,    \* which CPU collector is built: "cpu.go" or "part_000"
    now,           \* the wall clock, ms
    advances,      \* number of clock advances so far
    calls,         \* number of getCPUStats calls so far
    procStat,      \* the kernel's counters behind /proc/stat
    cpuinfo,       \* what a read of /proc/cpuinfo gives on this machine
    sensor,        \* what a probe of the temperature sensors gives
    slow,          \* the family (1 info, 2 temperature, 3 usage) whose raw
                   \* read outlasts the 3 s context on this machine, 0: none
    cache,         \* StatsCollector.cpuCache
    last,          \* the last getCPUStats call: its results and what it did
    stored,        \* the raw sample read by the last read that seeded the
                   \* cache or computed a delta
    heap,          \* the maps allocated so far, by address (1 ..)
    prevRef,       \* address of the map CPUCache.previousStats refers to
    handed,        \* address of the map the last GetPreviousStats returned,
                   \* 0 before the first
    world,         \* GetSystemStats: the sources of the five families
    phase,         \* GetSystemStats: per family "pending", "running", "done"
    snapshot,      \* GetSystemStats: the fields of the SystemStats literal
                   \* evaluated so far
    returned,      \* GetSystemStats has returned the snapshot
    mutex,         \* CPUCache.mutex: the writer holding it (0: none) and the
                   \* readers holding it
    shared,        \* the CPUCache the overlapping cycles work on
    task,          \* per cycle: the cache operation it is in and where
    committed,     \* the caches left behind by completed writes
    issued,        \* number of cache operations started
    statText,      \* the lines of /proc/stat handed to the parser
    records,       \* what the parser made of them, NoRecords before
    reading,       \* what the temperature sensor file holds
    reported,      \* the temperature read from it, NoReport before
    given,         \* the source text handed to the reader under study
    answer,        \* what that reader returned, NoAnswer before
    program,       \* the running terminal program: its message queue, its
                   \* commands in flight and the App it updates
    view           \* the App on the screen: its window, tabs and scroll
                   \* positions, and what the last View showed

calcVars == <<calcPrev, calcCur, calcUsage, calcValidated>>

collectorVars ==
    <<generation, now, advances, calls, procStat, cpuinfo, sensor, slow,
      cache, last, stored>>

copyVars == <<heap, prevRef, handed>>

snapshotVars == <<world, phase, snapshot, returned>>

lockVars == <<mutex, shared, task, committed, issued>>

parseVars == <<statText, records>>

tempVars == <<reading, reported>>

readerVars == <<given, answer>>

appVars == <<program>>

viewVars == <<view>>

vars == <<calcPrev, calcCur, calcUsage, calcValidated,
          generation, now, advances, calls, procStat, cpuinfo, sensor, slow,
          cache, last, stored, heap, prevRef, handed,
          world, phase, snapshot, returned,
          mutex, shared, task, committed, issued,
          statText, records, reading, reported, given, answer,
          program, view>>

\* what the steps of one part of the program leave alone
collectorRest ==
    <<calcVars, copyVars, snapshotVars, lockVars, parseVars, tempVars,
      readerVars, appVars, viewVars>>

calcRest ==
    <<collectorVars, copyVars, snapshotVars, lockVars, parseVars, tempVars,
      readerVars, appVars, viewVars>>

copyRest ==
    <<calcVars, collectorVars, snapshotVars, lockVars, parseVars, tempVars,
      readerVars, appVars, viewVars>>

snapshotRest ==
    <<calcVars, collectorVars, copyVars, lockVars, parseVars, tempVars,
      readerVars, appVars, viewVars>>

lockRest ==
    <<calcVars, collectorVars, copyVars, snapshotVars, parseVars, tempVars,
      readerVars, appVars, viewVars>>

parseRest ==
    <<calcVars, collectorVars, copyVars, snapshotVars, lockVars, tempVars,
      readerVars, appVars, viewVars>>

tempRest ==
    <<calcVars, collectorVars, copyVars, snapshotVars, lockVars, parseVars,
      readerVars, appVars, viewVars>>

readerRest ==
    <<calcVars, collectorVars, copyVars, snapshotVars, lockVars, parseVars,
      tempVars, appVars, viewVars>>

appRest ==
    <<calcVars, collectorVars, copyVars, snapshotVars, lockVars, parseVars,
      tempVars, readerVars, viewVars>>

viewRest ==
    <<calcVars, collectorVars, copyVars, snapshotVars, lockVars, parseVars,
      tempVars, readerVars, appVars>>

NoResult == [num |-> -1, den |-> 1]

\* the calculator before it is handed samples
IdleCalc ==
    /\ calcPrev = ZeroTimes
    /\ calcCur = ZeroTimes
    /\ calcUsage = NoResult
    /\ calcValidated = NoResult

\* NewCPUCache: previousStats refers to a fresh empty map
InitCopy ==
    /\ heap = <<EmptyStats>>
    /\ prevRef = 1
    /\ handed = 0

\* GetSystemStats is not called
IdleSnapshot ==
    /\ world = <<>>
    /\ phase = <<>>
    /\ snapshot = <<>>
    /\ returned = FALSE

\* no cycle is working on the cache
IdleLock ==
    /\ mutex = [writer |-> 0, readers |-> {}]
    /\ shared = NewCPUCache
    /\ task = <<>>
    /\ committed = {}
    /\ issued = 0

NoRecords == [read |-> FALSE]

IdleParse ==
    /\ statText = <<>>
    /\ records = NoRecords

NoReport == [read |-> FALSE]

IdleTemp ==
    /\ reading = [present |-> FALSE, raw |-> 0]
    /\ reported = NoReport

NoAnswer == [done |-> FALSE]

IdleReader ==
    /\ given = <<>>
    /\ answer = NoAnswer

NoProgram == [started |-> FALSE]

\* the terminal program is not started
IdleApp == program = NoProgram

NoView == [started |-> FALSE]

\* the App is not constructed
IdleView == view = NoView

\* the parts of the program that take no step in the part under study
IdleReaders == IdleLock /\ IdleParse /\ IdleTemp /\ IdleReader /\ IdleApp
                   /\ IdleView

\* ------------------------------------------------- the collector at work
NoCall == [called |-> FALSE]

\* the counters since boot: every core has run one idle tick
BootStat ==
    [k \in CounterNames |->
        IF k = "cpu" THEN [Total |-> NumCPU, Idle |-> NumCPU]
        ELSE [Total |-> 1, Idle |-> 1]]

\* the machines the collector runs on: what its identity and sensor files
\* give and which of its sources is slow
Machines ==
    {\* every source readable and fast
     [cpuinfo |-> [err |-> FALSE, model |-> "Ryzen 5", freq |-> 2400],
      sensor |-> [present |-> TRUE, raw |-> 45500], slow |-> 0],
     \* a container: no /proc/cpuinfo, no sensor
     [cpuinfo |-> [err |-> TRUE, model |-> "Unknown CPU", freq |-> 0],
      sensor |-> [present |-> FALSE, raw |-> 0], slow |-> 0],
     \* no "cpu MHz" line, a sensor that reads 0
     [cpuinfo |-> [err |-> FALSE, model |-> "Ryzen 5", freq |-> 0],
      sensor |-> [present |-> TRUE, raw |-> 0], slow |-> 0],
     \* a slow /proc/cpuinfo
     [cpuinfo |-> [err |-> FALSE, model |-> "Ryzen 5", freq |-> 3000],
      sensor |-> [present |-> TRUE, raw |-> 45500], slow |-> 1],
     \* a slow sensor path
     [cpuinfo |-> [err |-> FALSE, model |-> "Ryzen 5", freq |-> 2400],
      sensor |-> [present |-> TRUE, raw |-> 45500], slow |-> 2]}

InitCollector ==
    /\ generation \in {"cpu.go", "part_000"}
    /\ now = 0
    /\ advances = 0
    /\ calls = 0
    /\ procStat = BootStat
    /\ \E m \in Machines :
         /\ cpuinfo = m.cpuinfo
         /\ sensor = m.sensor
         /\ slow = m.slow
    /\ cache = NewCPUCache
    /\ last = NoCall
    /\ stored = EmptyStats

\* clock steps: below and at the 100 ms sample gap, and each ttl (sums of two
\* steps fall below each ttl)
Jumps == {50, MinSampleGap, UsageCacheDuration, ModelCacheDuration}

Advance ==
    /\ advances < MaxAdvances
    /\ \E d \in Jumps : now' = now + d
    /\ advances' = advances + 1
    /\ UNCHANGED <<generation, calls, procStat, cpuinfo, sensor, slow, cache,
                   last, stored>>
    /\ UNCHANGED collectorRest

\* the kernel accounts one tick to a core, busy or idle
Tick(times, busy) ==
    [Total |-> (times.Total + 1) % Modulus,
     Idle |-> IF busy THEN times.Idle ELSE (times.Idle + 1) % Modulus]

Work ==
    /\ procStat["cpu"].Total < NumCPU + MaxWork
    /\ \E i \in 0 .. NumCPU - 1, busy \in BOOLEAN :
         procStat' = [procStat EXCEPT ![CoreKey(i)] = Tick(@, busy),
                                      !["cpu"] = Tick(@, busy)]
    /\ UNCHANGED <<generation, now, advances, calls, cpuinfo, sensor, slow,
                   cache, last, stored>>
    /\ UNCHANGED collectorRest

\* what a call leaves in last
CallRecord(info, temp, usage, ok, sample, tempAt, usageAt) ==
    [called |-> TRUE, tempAt |-> tempAt, usageAt |-> usageAt,
     model |-> info.model, freq |-> info.freq,
     modelFrom |-> info.modelFrom, freqFrom |-> info.freqFrom,
     temp |-> temp.temp, tempFrom |-> temp.tempFrom,
     usage |-> usage.usage, cores |-> usage.cores, branch |-> usage.branch,
     readStat |-> usage.readStat, statOK |-> ok,
     sample |-> IF usage.readStat THEN sample ELSE EmptyStats,
     pairs |-> usage.pairs, previousUsed |-> usage.previousUsed]

\* cpu.go getCPUStats
GetCPUStats ==
    /\ generation = "cpu.go"
    /\ calls < MaxCalls
    /\ calls' = calls + 1
    /\ \E ok \in BOOLEAN, bad \in BadLines, order \in Orders :
         LET currentStats == getCurrentCPUStats(procStat, ok, bad)
             r1 == getCPUCachedInfo(cache, now, cpuinfo)
             r2 == getCachedTemperature(r1.c, now, sensor)
             r3 == getCachedCPUUsage(r2.c, now, currentStats, order)
         IN  /\ cache' = r3.c
             /\ last' = CallRecord(r1, r2, r3, ok, currentStats, now, now)
             /\ stored' = IF r3.branch \in {"seed", "delta"}
                          THEN currentStats ELSE stored
    /\ UNCHANGED <<generation, now, advances, procStat, cpuinfo, sensor, slow>>
    /\ UNCHANGED collectorRest

\* part_000 getCPUStats
GetCPUStatsCtx ==
    /\ generation = "part_000"
    /\ calls < MaxCalls
    /\ calls' = calls + 1
    /\ \E ok \in BOOLEAN, bad \in BadLines,
          cut \in IF slow = 1 THEN BOOLEAN ELSE {FALSE} :
         LET deadline == now + CtxTimeout
             dur(stage) == IF slow = stage THEN CtxTimeout ELSE 0
             read == getCurrentCPUStatsCtx(procStat, ok, bad)
             r1 == getCPUCachedInfoCtx(cache, now, deadline, cpuinfo, dur(1),
                                       cut)
             r2 == getCachedTemperatureCtx(r1.c, r1.t, deadline, sensor, dur(2))
             r3 == getCachedCPUUsageCtx(r2.c, r2.t, deadline, read, dur(3))
         IN  /\ cache' = r3.c
             /\ now' = r3.t
             /\ last' = CallRecord(r1, r2, r3, ok, read.stats, r1.t, r2.t)
             /\ stored' = IF r3.branch \in {"seed", "delta"}
                          THEN read.stats ELSE stored
    /\ UNCHANGED <<generation, advances, procStat, cpuinfo, sensor, slow>>
    /\ UNCHANGED collectorRest

\* collector.go ClearCPUCache (no caller in the application)
ClearCPUCache ==
    /\ cache' = Clear(cache)
    /\ last' = NoCall
    /\ stored' = EmptyStats
    /\ UNCHANGED <<generation, now, advances, calls, procStat, cpuinfo, sensor,
                   slow>>
    /\ UNCHANGED collectorRest

\* a collector that is never called
IdleCollector ==
    /\ InitCollector
    /\ generation = "cpu.go"
    /\ cpuinfo.model = "Ryzen 5" /\ cpuinfo.freq = 2400
    /\ slow = 0

Init ==
    /\ calcPrev = ZeroTimes
    /\ calcCur = ZeroTimes
    /\ calcUsage = NoResult
    /\ calcValidated = NoResult
    /\ InitCollector
    /\ InitCopy
    /\ IdleSnapshot
    /\ IdleReaders

Next ==
    \/ Advance
    \/ Work
    \/ GetCPUStats
    \/ GetCPUStatsCtx

Spec == Init /\ [][Next]_vars

\* the collector with explicit invalidation by an operator
NextClear == Next \/ ClearCPUCache

SpecClear == Init /\ [][NextClear]_vars

\* ---------------------------------------------------------- collector claims
\* a step that is one getCPUStats call
IsCall == calls' = calls + 1

PerCoreCounters(sample) == DOMAIN sample \cap CoreKeys

\* C5: on a CPU usage read that finds no previous raw sample in the cache and
\* reads a sample, the sample becomes the cache's previous sample, the overall
\* usage returned is 0 and the per-core list holds one 0 for every per-core
\* counter of the sample.
C5_FirstReadSeeds ==
    [][(IsCall /\ DOMAIN cache.previousStats = {}
              /\ last'.readStat /\ last'.statOK) =>
          /\ cache'.previousStats = last'.sample
          /\ last'.usage = Percent(0)
          /\ last'.cores = Zeros(Cardinality(PerCoreCounters(last'.sample)))]_vars

\* C6: for each cached family that has been set, the validity check is true
\* exactly when the time since the set is below the family's ttl.
C6_ValidIffWithinTtl ==
    /\ cache.modelTime # ZeroTime =>
         (IsModelCacheValid(cache, now)
             <=> now - cache.modelTime < ModelCacheDuration)
    /\ cache.frequencyTime # ZeroTime =>
         (IsFrequencyCacheValid(cache, now)
             <=> now - cache.frequencyTime < FrequencyCacheDuration)
    /\ cache.temperatureTime # ZeroTime =>
         (IsTemperatureCacheValid(cache, now)
             <=> now - cache.temperatureTime < TemperatureCacheDuration)
    /\ cache.usageTime # ZeroTime =>
         (IsUsageCacheValid(cache, now)
             <=> now - cache.usageTime < UsageCacheDuration)

\* how one family fared in a call: fetched = the family's raw source gives a
\* value on this machine, stamp = when the family was last stored, at = when
\* the call reached the family, from = where the returned value came from
ServedWithinTtl(fetched, stamp, at, ttl, from) ==
    /\ (fetched /\ stamp # ZeroTime /\ at - stamp < ttl) => from = "cache"
    /\ (fetched /\ stamp # ZeroTime /\ at - stamp > ttl) => from = "raw"

UsageFrom(call) ==
    IF call.branch = "cached" THEN "cache"
    ELSE IF call.readStat THEN "raw" ELSE "default"

\* C7: a family fetched at time T is served from the cache, without a raw
\* read, by every call before T + ttl and is read from the raw source by a
\* call after T + ttl.
C7_ServedFromCacheUntilTtl ==
    [][IsCall =>
          /\ ServedWithinTtl(~cpuinfo.err /\ cpuinfo.model # "Unknown CPU",
                             cache.modelTime, now,
                             ModelCacheDuration, last'.modelFrom)
          /\ ServedWithinTtl(~cpuinfo.err /\ cpuinfo.freq # 0,
                             cache.frequencyTime, now,
                             FrequencyCacheDuration, last'.freqFrom)
          /\ ServedWithinTtl(sensor.present,
                             cache.temperatureTime, last'.tempAt,
                             TemperatureCacheDuration, last'.tempFrom)
          /\ ServedWithinTtl(TRUE,
                             cache.usageTime, last'.usageAt,
                             UsageCacheDuration, UsageFrom(last'))]_vars

\* C8: once a usage value has been computed and stored, a usage read within
\* the 1 s ttl returns the stored overall and per-core values, computes no
\* delta and leaves the previous raw sample unchanged.
C8_RepeatedReadWithinTtl ==
    [][(IsCall /\ cache.usageTime # ZeroTime
              /\ last'.usageAt - cache.usageTime < UsageCacheDuration) =>
          /\ last'.usage = cache.cachedUsage
          /\ last'.cores = cache.cachedCoreUsages
          /\ last'.branch # "delta"
          /\ cache'.previousStats = cache.previousStats]_vars

\* C9: every percentage is computed from a previous and a current sample of
\* the same counter, both of which were read from the accounting source.
C9_DeltaOfSameCounter ==
    last.called =>
        \A p \in last.pairs :
            p.prevKey = p.curKey /\ p.prevRead /\ p.curRead

\* C10: the cache's previous raw sample is the sample read by the most recent
\* read that seeded the cache or computed a delta, and a delta is computed
\* against that sample.
C10_OnlyLatestSampleKept ==
    /\ [](cache.previousStats = stored)
    /\ [][(IsCall /\ last'.branch = "delta") =>
              last'.previousUsed = stored]_vars

\* C10 witness: a delta was computed against the seeded sample and replaced
\* it by a different one.
C10_Witness ==
    /\ last.called
    /\ last.branch = "delta"
    /\ last.previousUsed # EmptyStats
    /\ cache.previousStats # last.previousUsed
    /\ cache.previousStats = last.sample

\* a step of ClearCPUCache: neither a call, nor the clock, nor the kernel
IsClear == calls' = calls /\ now' = now /\ procStat' = procStat

AllZero(cores) == \A i \in DOMAIN cores : cores[i] = Percent(0)

\* C11: after Clear (as on a new cache) and until the next call, no family is
\* valid and the cache holds no previous raw sample; the next call's usage
\* read that reads a sample seeds the cache with it and returns 0.
C11_ClearEmpties ==
    /\ [][IsClear => /\ cache'.previousStats = EmptyStats
                     /\ ~HasPreviousStats(cache')]_vars
    /\ [](last = NoCall =>
            /\ ~IsModelCacheValid(cache, now)
            /\ ~IsFrequencyCacheValid(cache, now)
            /\ ~IsTemperatureCacheValid(cache, now)
            /\ ~IsUsageCacheValid(cache, now)
            /\ ~HasPreviousStats(cache))
    /\ [][(IsCall /\ last = NoCall /\ last'.readStat /\ last'.statOK) =>
              /\ last'.branch = "seed"
              /\ cache'.previousStats = last'.sample
              /\ last'.usage = Percent(0)
              /\ AllZero(last'.cores)]_vars

\* C11 witness: the context generation seeds again although a usage value
\* was computed before: the cache was cleared in between.
C11_Witness ==
    /\ generation = "part_000"
    /\ last.called
    /\ last.branch = "seed"
    /\ last.sample # EmptyStats
    /\ cache.usageTime # ZeroTime

\* C13: in a call of the context generation, a family whose refresh meets
\* the expired 3 s context is returned with its last cached value: model and
\* frequency when the scan of a readable /proc/cpuinfo is cut, temperature
\* and usage when their stage starts after the deadline.
C13_TimeoutFallsBackToCache ==
    [][(IsCall /\ generation = "part_000") =>
          LET deadline == now + CtxTimeout
              infoCut == /\ ~cpuinfo.err
                         /\ last'.tempAt >= deadline
                         /\ last'.modelFrom # "raw"
          IN  /\ (infoCut /\ cache.modelTime # ZeroTime) =>
                     last'.model = cache.model
              /\ (infoCut /\ cache.frequencyTime # ZeroTime) =>
                     last'.freq = cache.frequency
              /\ (last'.tempAt >= deadline
                      /\ cache.temperatureTime # ZeroTime) =>
                     last'.temp = cache.temperature
              /\ (last'.usageAt >= deadline /\ cache.usageTime # ZeroTime) =>
                     /\ last'.usage = cache.cachedUsage
                     /\ last'.cores = cache.cachedCoreUsages]_vars

\* C29: a CPU usage read made when a previous raw sample is held and less
\* than 100 ms have passed since it was stored computes no delta: it returns
\* the usage the cache holds and leaves the previous raw sample, its time
\* and the cached usage as they were.
C29_TooSoonLeavesCacheAlone ==
    [][(/\ calls' = calls + 1
        /\ HasPreviousStats(cache)
        /\ Since(cache.previousTime, now') < MinSampleGap)
       => /\ last'.branch # "delta"
          /\ last'.pairs = NoPairs
          /\ last'.usage = cache.cachedUsage
          /\ last'.cores = cache.cachedCoreUsages
          /\ cache'.previousStats = cache.previousStats
          /\ cache'.previousTime = cache.previousTime
          /\ cache'.cachedUsage = cache.cachedUsage
          /\ cache'.cachedCoreUsages = cache.cachedCoreUsages
          /\ cache'.usageTime = cache.usageTime]_vars

\* the usage of one core between two samples, as the collector built computes
\* it
CoreUsageOf(previousStats, currentStats, key) ==
    IF generation = "cpu.go"
    THEN calculateUsage(Lookup(previousStats, key), Lookup(currentStats, key))
    ELSE calculateUsageWithValidation(Lookup(previousStats, key),
                                      Lookup(currentStats, key))

\* C31: in the per-core list of a usage read that computed a delta, the entry
\* at position i (from 0) is the usage of counter "cpu<i>" between the
\* previous and the current sample.
C31_PositionIsCoreIndex ==
    (last.called /\ last.branch = "delta") =>
        \A i \in DOMAIN last.cores :
            /\ CoreKey(i - 1) \in DOMAIN last.sample
            /\ CoreKey(i - 1) \in DOMAIN last.previousUsed
            /\ last.cores[i] =
                   CoreUsageOf(last.previousUsed, last.sample, CoreKey(i - 1))

\* the cores the accounting source has a counter for
CoresPresent == DOMAIN procStat \cap CoreKeys

\* C32: every usage read that returns by the seeding, cached, 100 ms or
\* delta branch returns a per-core list with one entry per core present in
\* the accounting source.
C32_OneEntryPerCore ==
    (last.called /\ last.branch \in {"seed", "cached", "tooSoon", "delta"}) =>
        Len(last.cores) = Cardinality(CoresPresent)

\* C33: a usage read whose read of the accounting source fails returns
\* usage 0 and leaves the cache's previous raw sample, its time and the
\* cached usage as they were.
C33_FailedReadLeavesCacheAlone ==
    [][(IsCall /\ last'.readStat /\ ~last'.statOK) =>
          /\ last'.usage = Percent(0)
          /\ cache'.previousStats = cache.previousStats
          /\ cache'.previousTime = cache.previousTime
          /\ cache'.cachedUsage = cache.cachedUsage
          /\ cache'.cachedCoreUsages = cache.cachedCoreUsages
          /\ cache'.usageTime = cache.usageTime]_vars

\* C34: on a machine whose identity source cannot be read or names no model,
\* no call leaves the model family valid and no call serves the model from
\* the cache.
C34_UnknownModelNotCached ==
    [][(IsCall /\ (cpuinfo.err \/ cpuinfo.model = "Unknown CPU")) =>
          /\ ~IsModelCacheValid(cache', now')
          /\ last'.modelFrom # "cache"]_vars

\* ----------------------------------------------------- the memory family
\* /proc/meminfo: readable = the file can be opened; lines = its "key: value
\* kB" lines in order, value = BadNumber for a value that is no number.
\* Memory quantities are counted in thousands (16000 stands for 16000000 kB
\* on input and for 16000000 bytes on output), which keeps the factor 1024.
BadNumber == -1

ZeroMemoryStats ==
    [Total |-> 0, Used |-> 0, Free |-> 0, Available |-> 0,
     UsagePercent |-> Percent(0), SwapTotal |-> 0, SwapUsed |-> 0]

NoMemFields ==
    [memTotal |-> 0, memFree |-> 0, memAvailable |-> 0, swapTotal |-> 0,
     swapFree |-> 0, foundFields |-> 0]

\* the switch on the key of one line
MemField(acc, key, value) ==
    IF key = "MemTotal"
    THEN [acc EXCEPT !.memTotal = value, !.foundFields = @ + 1]
    ELSE IF key = "MemFree"
    THEN [acc EXCEPT !.memFree = value, !.foundFields = @ + 1]
    ELSE IF key = "MemAvailable"
    THEN [acc EXCEPT !.memAvailable = value, !.foundFields = @ + 1]
    ELSE IF key = "SwapTotal" THEN [acc EXCEPT !.swapTotal = value]
    ELSE IF key = "SwapFree" THEN [acc EXCEPT !.swapFree = value]
    ELSE acc

\* the scanner loop of memory.go, from line i on
RECURSIVE ScanMemInfo(_, _, _)
ScanMemInfo(lines, i, acc) ==
    IF i > Len(lines) THEN acc
    ELSE IF lines[i].value = BadNumber THEN ScanMemInfo(lines, i + 1, acc)
    ELSE LET next == MemField(acc, lines[i].key, lines[i].value)
         IN  IF next.foundFields >= 3 /\ next.swapTotal > 0
                    /\ next.swapFree > 0
             THEN next
             ELSE ScanMemInfo(lines, i + 1, next)

\* memory.go getMemoryStats
getMemoryStats(meminfo) ==
    LET f == ScanMemInfo(IF meminfo.readable THEN meminfo.lines ELSE <<>>,
                         1, NoMemFields)
        memAvailable == IF f.memAvailable = 0 THEN f.memFree
                        ELSE f.memAvailable
        memUsed == f.memTotal - memAvailable
    IN  IF f.memTotal = 0 \/ f.foundFields < 2 THEN ZeroMemoryStats
        ELSE [Total |-> f.memTotal, Used |-> memUsed, Free |-> f.memFree,
              Available |-> memAvailable,
              UsagePercent |-> Ratio(100 * memUsed, f.memTotal),
              SwapTotal |-> f.swapTotal,
              SwapUsed |-> f.swapTotal - f.swapFree]

\* stat.go: memInfo[key] = value * 1024, the last line of a key wins
RECURSIVE MemInfoMap(_, _, _)
MemInfoMap(lines, i, key) ==
    IF i = 0 THEN 0
    ELSE IF lines[i].key = key /\ lines[i].value # BadNumber
    THEN lines[i].value * 1024
    ELSE MemInfoMap(lines, i - 1, key)

\* stat.go getMemoryStats
getMemoryStatsStatGo(meminfo) ==
    IF ~meminfo.readable THEN ZeroMemoryStats
    ELSE LET memInfo(key) == MemInfoMap(meminfo.lines, Len(meminfo.lines), key)
             total == memInfo("MemTotal")
             available == memInfo("MemAvailable")
             used == total - available
         IN  [Total |-> total, Used |-> used, Free |-> memInfo("MemFree"),
              Available |-> available,
              UsagePercent |-> IF total > 0 THEN Ratio(100 * used, total)
                               ELSE Percent(0),
              SwapTotal |-> memInfo("SwapTotal"),
              SwapUsed |-> memInfo("SwapTotal") - memInfo("SwapFree")]

\* ---------------------------------------------------- the battery family
\* /sys/class/power_supply/BAT*: present = the glob finds a directory; the
\* files hold a number, or BadNumber when unreadable or no number; status is
\* the content of the status file, NoFile when unreadable.
NoFile == "<unreadable>"

readBatteryInt(content) == IF content = BadNumber THEN 0 ELSE content

readBatteryString(content) == IF content = NoFile THEN "Unknown" ELSE content

getBatteryHealth(battery) ==
    LET energyFull == readBatteryInt(battery.energyFull)
        energyFullDesign == readBatteryInt(battery.energyFullDesign)
    IN  IF energyFullDesign > 0 /\ energyFull > 0
        THEN LET health == (energyFull * 100) \div energyFullDesign
             IN  IF health > 100 THEN 100 ELSE health
        ELSE 100

NoBatteryStats ==
    [Level |-> 100, Status |-> "Not Available",
     TimeLeft |-> [known |-> FALSE, hours |-> 0, mins |-> 0],
     IsCharging |-> FALSE, Health |-> 100]

getBatteryStats_zeroValue(battery) ==
    IF ~battery.present
    THEN [Level |-> 0, Status |-> "",
          TimeLeft |-> [known |-> FALSE, hours |-> 0, mins |-> 0],
          IsCharging |-> FALSE, Health |-> 0]
    ELSE [Level |-> readBatteryInt(battery.capacity),
          Status |-> readBatteryString(battery.status),
          TimeLeft |-> [known |-> FALSE, hours |-> 0, mins |-> 0],
          IsCharging |-> readBatteryString(battery.status) = "Charging",
          Health |-> getBatteryHealth(battery)]

\* TimeLeft: "%dh %dm" is kept as its two numbers, "N/A" as not known
getBatteryStats(battery) ==
    IF ~battery.present THEN NoBatteryStats
    ELSE LET level == readBatteryInt(battery.capacity)
             status == readBatteryString(battery.status)
             isCharging == status = "Charging"
         IN  [Level |-> level, Status |-> status,
              TimeLeft |-> IF ~isCharging /\ level > 0
                           THEN [known |-> TRUE, hours |-> level \div 10,
                                 mins |-> (level % 10) * 6]
                           ELSE [known |-> FALSE, hours |-> 0, mins |-> 0],
              IsCharging |-> isCharging,
              Health |-> getBatteryHealth(battery)]

\* ---------------------------------------------------- the network family
\* /proc/net/dev: readable, and its lines in order (the two header lines
\* included); a line has its number of fields, the interface name, the
\* counters, and what the interface's operstate and speed files hold.
ZeroNetworkStats == [Interfaces |-> <<>>, TotalRx |-> 0, TotalTx |-> 0]

getInterfaceStatus(line) ==
    IF line.operstate = NoFile THEN "unknown" ELSE line.operstate

\* "%d Mb/s" is kept as its number, "unknown" as not known
getInterfaceSpeed(line) ==
    IF line.speed = BadNumber THEN [known |-> FALSE, mbps |-> 0]
    ELSE [known |-> TRUE, mbps |-> line.speed]

RECURSIVE ScanNetDev_countsLoopback(_, _, _)
ScanNetDev_countsLoopback(lines, i, acc) ==
    IF i > Len(lines) THEN acc
    ELSE IF i <= 2 \/ lines[i].fields < 17
    THEN ScanNetDev_countsLoopback(lines, i + 1, acc)
    ELSE ScanNetDev_countsLoopback(lines, i + 1,
             [Interfaces |-> IF lines[i].name = "lo" THEN acc.Interfaces
                             ELSE Append(acc.Interfaces,
                  [Name |-> lines[i].name,
                   RxBytes |-> lines[i].rxBytes, TxBytes |-> lines[i].txBytes,
                   RxPackets |-> lines[i].rxPackets,
                   TxPackets |-> lines[i].txPackets,
                   Status |-> getInterfaceStatus(lines[i]),
                   Speed |-> getInterfaceSpeed(lines[i])]),
              TotalRx |-> (acc.TotalRx + lines[i].rxBytes) % Modulus,
              TotalTx |-> (acc.TotalTx + lines[i].txBytes) % Modulus])

RECURSIVE ScanNetDev(_, _, _)
ScanNetDev(lines, i, acc) ==
    IF i > Len(lines) THEN acc
    ELSE IF i <= 2 \/ lines[i].fields < 17 \/ lines[i].name = "lo"
    THEN ScanNetDev(lines, i + 1, acc)
    ELSE ScanNetDev(lines, i + 1,
             [Interfaces |-> Append(acc.Interfaces,
                  [Name |-> lines[i].name,
                   RxBytes |-> lines[i].rxBytes, TxBytes |-> lines[i].txBytes,
                   RxPackets |-> lines[i].rxPackets,
                   TxPackets |-> lines[i].txPackets,
                   Status |-> getInterfaceStatus(lines[i]),
                   Speed |-> getInterfaceSpeed(lines[i])]),
              TotalRx |-> (acc.TotalRx + lines[i].rxBytes) % Modulus,
              TotalTx |-> (acc.TotalTx + lines[i].txBytes) % Modulus])

getNetworkStats(netdev) ==
    IF ~netdev.readable THEN ZeroNetworkStats
    ELSE ScanNetDev(netdev.lines, 1, ZeroNetworkStats)

\* ------------------------------------------------------- the disk family
\* /proc/mounts: readable, and its lines; a line has its number of fields,
\* whether the device starts with /dev and contains "loop", the filesystem,
\* what statfs gives (ok, Blocks, Bavail, Bsize) and what /proc/diskstats
\* holds for the device (listed, sectors and operations read and written).
getDiskIO(line) ==
    IF ~line.listed THEN <<0, 0, 0, 0>>
    ELSE <<(line.readSectors * 512) % Modulus,
           (line.writeSectors * 512) % Modulus, line.readOps, line.writeOps>>

DiskOf(line) ==
    LET total == (line.Blocks * line.Bsize) % Modulus
        free == (line.Bavail * line.Bsize) % Modulus
        used == SubU64(total, free)
        io == getDiskIO(line)
    IN  [Device |-> line.device, Total |-> total, Used |-> used,
         Free |-> free,
         UsagePercent |-> IF total > 0 THEN Ratio(100 * used, total)
                          ELSE Percent(0),
         Filesystem |-> line.filesystem,
         ReadBytes |-> io[1], WriteBytes |-> io[2],
         ReadOps |-> io[3], WriteOps |-> io[4]]

RECURSIVE ScanMounts(_, _)
ScanMounts(lines, i) ==
    IF i > Len(lines) THEN <<>>
    ELSE IF /\ lines[i].fields >= 3
            /\ lines[i].underDev /\ ~lines[i].loop
            /\ lines[i].filesystem # "tmpfs"
            /\ lines[i].statfsOK
    THEN <<DiskOf(lines[i])>> \o ScanMounts(lines, i + 1)
    ELSE ScanMounts(lines, i + 1)

getDiskStats(mounts) ==
    IF ~mounts.readable THEN <<>> ELSE ScanMounts(mounts.lines, 1)

\* ----------------------------------------------------- GetSystemStats
Families == {"CPU", "Memory", "Network", "Disk", "Battery"}

\* the order of the fields in the SystemStats literal
FamilyOrder == <<"CPU", "Memory", "Network", "Disk", "Battery">>

FamilyIndex(f) == CHOOSE i \in 1 .. Len(FamilyOrder) : FamilyOrder[i] = f

MemLine(key, value) == [key |-> key, value |-> value]

MemInfos ==
    {<<MemLine("MemTotal", 16000), MemLine("MemAvailable", 8000)>>,
     <<MemLine("MemTotal", 16000), MemLine("MemFree", 4000),
       MemLine("MemAvailable", 8000), MemLine("SwapTotal", 2000),
       MemLine("SwapFree", 500)>>,
     <<MemLine("MemTotal", 16000), MemLine("MemFree", 4000),
       MemLine("Buffers", 100)>>,
     <<MemLine("MemTotal", 8000), MemLine("MemFree", 1000),
       MemLine("MemAvailable", 16000)>>,
     <<MemLine("MemTotal", BadNumber), MemLine("MemFree", 4000),
       MemLine("MemAvailable", 8000)>>}

NetLine(name, fields, rx, tx) ==
    [name |-> name, fields |-> fields, rxBytes |-> rx, rxPackets |-> rx,
     txBytes |-> tx, txPackets |-> tx,
     operstate |-> IF rx > 0 THEN "up" ELSE NoFile,
     speed |-> IF rx > 0 THEN 1000 ELSE BadNumber]

NetDev ==
    <<NetLine("Inter-|", 4, 0, 0), NetLine("face", 17, 0, 0),
      NetLine("lo", 17, 700, 700), NetLine("eth0", 17, 300, 200),
      NetLine("bad0", 5, 50, 50), NetLine("wlan0", 17, 0, 0)>>

\* other contents of /proc/net/dev: no interface but the loopback; the
\* loopback last and counters whose sum passes the top of the word; an
\* interface named like the loopback's prefix and a line cut short
NetDevs ==
    {NetDev,
     <<NetLine("Inter-|", 4, 0, 0), NetLine("face", 17, 0, 0),
       NetLine("lo", 17, 700, 700)>>,
     <<NetLine("Inter-|", 4, 0, 0), NetLine("face", 17, 0, 0),
       NetLine("eth0", 17, Modulus - 100, 200), NetLine("eth1", 17, 300, 5),
       NetLine("lo", 17, 700, 700)>>,
     <<NetLine("Inter-|", 4, 0, 0), NetLine("face", 17, 0, 0),
       NetLine("lo0", 17, 40, 30), NetLine("eth0", 16, 300, 200),
       NetLine("lo", 18, 700, 700), NetLine("wlan0", 18, 7, 9)>>}

MountLine(device, underDev, loop, filesystem, statfsOK, blocks) ==
    [device |-> device, fields |-> 6, underDev |-> underDev, loop |-> loop,
     filesystem |-> filesystem, statfsOK |-> statfsOK,
     Blocks |-> blocks, Bavail |-> blocks \div 4, Bsize |-> 4,
     listed |-> blocks > 0, readSectors |-> 3, writeSectors |-> 2,
     readOps |-> 3, writeOps |-> 2]

Mounts ==
    <<MountLine("/dev/sda1", TRUE, FALSE, "ext4", TRUE, 100),
      MountLine("tmpfs", FALSE, FALSE, "tmpfs", TRUE, 10),
      MountLine("/dev/loop0", TRUE, TRUE, "squashfs", TRUE, 10),
      MountLine("/dev/sdb1", TRUE, FALSE, "vfat", TRUE, 0),
      MountLine("/dev/sdc1", TRUE, FALSE, "ext4", FALSE, 10)>>

Batteries ==
    {[capacity |-> 87, status |-> "Discharging", energyFull |-> 45,
      energyFullDesign |-> 50],
     [capacity |-> BadNumber, status |-> NoFile, energyFull |-> 55,
      energyFullDesign |-> 50],
     [capacity |-> 50, status |-> "Charging", energyFull |-> 45,
      energyFullDesign |-> 0]}

\* every combination of readable and unreadable sources
Worlds ==
    {[CPU |-> [readable |-> c,
               info |-> [err |-> FALSE, model |-> "Ryzen 5", freq |-> 2400],
               probe |-> [present |-> TRUE, raw |-> 45500]],
      Memory |-> [readable |-> m, lines |-> lines],
      Network |-> [readable |-> n, lines |-> nd],
      Disk |-> [readable |-> d, lines |-> Mounts],
      Battery |-> [present |-> b, capacity |-> bat.capacity,
                   status |-> bat.status, energyFull |-> bat.energyFull,
                   energyFullDesign |-> bat.energyFullDesign]] :
        c \in BOOLEAN, m \in BOOLEAN, n \in BOOLEAN, d \in BOOLEAN,
        b \in BOOLEAN, lines \in MemInfos, bat \in Batteries,
        nd \in NetDevs}

Available(w, f) == IF f = "Battery" THEN w[f].present ELSE w[f].readable

MadeAvailable(w, f) ==
    IF f = "Battery" THEN [w EXCEPT ![f].present = TRUE]
    ELSE [w EXCEPT ![f].readable = TRUE]

\* getCPUStats of cpu.go on the new collector
FirstCPUStats(cpu) ==
    LET info == IF cpu.readable THEN cpu.info
                ELSE [err |-> TRUE, model |-> "Unknown CPU", freq |-> 0]
        probe == IF cpu.readable THEN cpu.probe
                 ELSE [present |-> FALSE, raw |-> 0]
        r1 == getCPUCachedInfo(NewCPUCache, 0, info)
        r2 == getCachedTemperature(r1.c, 0, probe)
        r3 == getCachedCPUUsage(r2.c, 0,
                  getCurrentCPUStats(BootStat, cpu.readable, NoLine),
                  [i \in 1 .. NumCPU |-> i - 1])
    IN  [Usage |-> r3.usage, Cores |-> r3.cores, Frequency |-> r1.freq,
         Temp |-> r2.temp, Model |-> r1.model]

SystemStatsField_abort(f, w) ==
    IF f = "CPU" THEN FirstCPUStats([w[f] EXCEPT !.readable = FALSE])
    ELSE IF f = "Memory" THEN
        IF w["CPU"].readable THEN getMemoryStats(w[f]) ELSE ZeroMemoryStats
    ELSE IF f = "Network" THEN
        IF w["Memory"].readable THEN getNetworkStats(w[f])
        ELSE ZeroNetworkStats
    ELSE IF f = "Disk" THEN
        IF w["Network"].readable THEN getDiskStats(w[f]) ELSE <<>>
    ELSE IF w["Disk"].readable THEN getBatteryStats(w[f]) ELSE NoBatteryStats

\* one field of the literal returned by GetSystemStats
SystemStatsField(f, w) ==
    IF f = "CPU" THEN FirstCPUStats(w[f])
    ELSE IF f = "Memory" THEN getMemoryStats(w[f])
    ELSE IF f = "Network" THEN getNetworkStats(w[f])
    ELSE IF f = "Disk" THEN getDiskStats(w[f])
    ELSE getBatteryStats(w[f])

InitSnapshot ==
    /\ world \in Worlds
    /\ phase = [f \in Families |-> "pending"]
    /\ snapshot = <<>>
    /\ returned = FALSE

\* the call of a family's reader: the fields of the literal are evaluated
\* in order, each after the one before it has returned
BeginFamily(f) ==
    /\ phase[f] = "pending"
    /\ \A g \in Families : FamilyIndex(g) < FamilyIndex(f) => phase[g] = "done"
    /\ phase' = [phase EXCEPT ![f] = "running"]
    /\ UNCHANGED <<world, snapshot, returned>>
    /\ UNCHANGED snapshotRest

\* the reader returns
EndFamily(f) ==
    /\ phase[f] = "running"
    /\ phase' = [phase EXCEPT ![f] = "done"]
    /\ snapshot' = [g \in DOMAIN snapshot \cup {f} |->
                       IF g = f THEN SystemStatsField(f, world)
                       ELSE snapshot[g]]
    /\ UNCHANGED <<world, returned>>
    /\ UNCHANGED snapshotRest

ReturnSnapshot ==
    /\ ~returned
    /\ \A f \in Families : phase[f] = "done"
    /\ returned' = TRUE
    /\ UNCHANGED <<world, phase, snapshot>>
    /\ UNCHANGED snapshotRest

NextSnapshot ==
    \/ \E f \in Families : BeginFamily(f)
    \/ \E f \in Families : EndFamily(f)
    \/ ReturnSnapshot

InitSnapshotSpec ==
    IdleCalc /\ IdleCollector /\ InitCopy /\ InitSnapshot /\ IdleReaders

SpecSnapshot == InitSnapshotSpec /\ [][NextSnapshot]_vars

\* the defaults of a family
DefaultOf(f) ==
    IF f = "CPU"
    THEN [Usage |-> Percent(0), Cores |-> <<>>, Frequency |-> 0, Temp |-> 0,
          Model |-> "Unknown CPU"]
    ELSE IF f = "Memory" THEN ZeroMemoryStats
    ELSE IF f = "Network" THEN ZeroNetworkStats
    ELSE IF f = "Disk" THEN <<>>
    ELSE NoBatteryStats

C15_FamiliesNeverWait ==
    /\ \A f \in Families :
           (phase # <<>> /\ phase[f] = "pending") => ENABLED BeginFamily(f)
    /\ returned => \A f \in Families : phase[f] = "done"

\* the fixture "MemTotal: 16000000 kB, MemAvailable: 8000000 kB"
ScenarioMemInfo ==
    <<MemLine("MemTotal", 16000), MemLine("MemAvailable", 8000)>>

\* C20: the memory values of the snapshot are the parsed kB values times
\* 1024: whenever the memory family is filled from its source, Total is
\* 1024 times the MemTotal value, and the fixture MemTotal 16000000 kB,
\* MemAvailable 8000000 kB gives Total = 16384000000, UsagePercent = 50.
C20_MemoryInBytes ==
    (returned /\ world["Memory"].readable) =>
        LET lines == world["Memory"].lines
        IN  /\ snapshot["Memory"] # ZeroMemoryStats =>
                   snapshot["Memory"].Total =
                       MemInfoMap(lines, Len(lines), "MemTotal")
            /\ lines = ScenarioMemInfo =>
                   /\ snapshot["Memory"].Total = 16384
                   /\ snapshot["Memory"].UsagePercent = Percent(50)

\* C21: in the returned snapshot the memory usage percentage is 0 when
\* the total memory is 0, the usage percentage of a disk is 0 when its
\* capacity is 0, the battery health is 0 when the design capacity of the
\* battery is 0, and the battery health is never above 100.
C21_ZeroDenominatorGivesZero ==
    returned =>
        /\ snapshot["Memory"].Total = 0 =>
               snapshot["Memory"].UsagePercent = Percent(0)
        /\ \A i \in DOMAIN snapshot["Disk"] :
               snapshot["Disk"][i].Total = 0 =>
                   snapshot["Disk"][i].UsagePercent = Percent(0)
        /\ (world["Battery"].present
               /\ readBatteryInt(world["Battery"].energyFullDesign) = 0)
               => snapshot["Battery"].Health = 0
        /\ snapshot["Battery"].Health <= 100

\* C36: the memory usage percentage of the returned snapshot is within
\* [0,100], whatever /proc/meminfo holds.
C36_MemoryPercentInRange ==
    returned =>
        /\ snapshot["Memory"].UsagePercent.num >= 0
        /\ snapshot["Memory"].UsagePercent.num
               <= 100 * snapshot["Memory"].UsagePercent.den

\* C22: when no battery directory is present, the battery family of the
\* snapshot is Level 100, Status "Not Available", IsCharging false,
\* Health 100, from the moment the battery reader has returned.
C22_NoBatteryDefaults ==
    (phase # <<>> /\ phase["Battery"] = "done" /\ ~world["Battery"].present)
    => /\ snapshot["Battery"].Level = 100
       /\ snapshot["Battery"].Status = "Not Available"
       /\ snapshot["Battery"].IsCharging = FALSE
       /\ snapshot["Battery"].Health = 100

\* C22 witness: a snapshot returned on a machine without a battery whose
\* other sources are all readable.
C22_Witness ==
    /\ returned
    /\ ~world["Battery"].present
    /\ \A f \in Families \ {"Battery"} : world[f].readable
    /\ snapshot["Battery"] = NoBatteryStats

\* the sum of a counter over the interfaces, in the counter's word
RECURSIVE SumOver(_, _, _)
SumOver(interfaces, field, i) ==
    IF i > Len(interfaces) THEN 0
    ELSE (interfaces[i][field] + SumOver(interfaces, field, i + 1)) % Modulus

\* the lines of /proc/net/dev after the 2 header lines that are interface
\* lines of another interface than "lo"
InterfaceLines(lines) ==
    SelectSeq([i \in 1 .. Len(lines) - 2 |-> lines[i + 2]],
              LAMBDA line : line.fields >= 17 /\ line.name # "lo")

\* C26: the network family read from a readable source holds one interface
\* per interface line after the 2 header lines, in order, none of them the
\* loopback "lo", and its TotalRx and TotalTx are the sums (in unsigned
\* 64-bit arithmetic) of RxBytes and TxBytes over exactly these interfaces.
C26_TotalsOverReturnedInterfaces ==
    (phase # <<>> /\ phase["Network"] = "done" /\ world["Network"].readable)
    => LET net == snapshot["Network"]
           expected == InterfaceLines(world["Network"].lines)
       IN  /\ Len(net.Interfaces) = Len(expected)
           /\ \A i \in DOMAIN net.Interfaces :
                  /\ net.Interfaces[i].Name = expected[i].name
                  /\ net.Interfaces[i].Name # "lo"
                  /\ net.Interfaces[i].RxBytes = expected[i].rxBytes
                  /\ net.Interfaces[i].TxBytes = expected[i].txBytes
           /\ net.TotalRx = SumOver(net.Interfaces, "RxBytes", 1)
           /\ net.TotalTx = SumOver(net.Interfaces, "TxBytes", 1)

\* C26 witness: a snapshot from a source with the loopback and two other
\* interfaces, with totals that leave the loopback's 700 bytes out.
C26_Witness ==
    /\ returned
    /\ world["Network"].readable
    /\ \E i \in DOMAIN world["Network"].lines :
           world["Network"].lines[i].name = "lo"
    /\ Len(snapshot["Network"].Interfaces) = 2
    /\ snapshot["Network"].TotalRx = 300
    /\ snapshot["Network"].TotalTx = 200

\* ------------------------------------------- the cache under its mutex
\* Overlapping snapshot cycles call cache operations; an operation takes the
\* mutex, reads or writes its fields one at a time, and releases the mutex.
NumCycles == 2

MaxOps == 3

Cycles == 1 .. NumCycles

\* what the cycles store: an overall usage with the per-core list computed
\* with it
UsagePairs ==
    {[usage |-> Percent(p), cores |-> [i \in 1 .. NumCPU |-> Percent(p)]] :
        p \in {25, 75}}

Writers == {"SetCachedUsage", "Clear"}

\* the fields an operation assigns or reads, in the order of its statements
FieldsOf(op) ==
    IF op = "SetCachedUsage"
    THEN <<"cachedUsage", "cachedCoreUsages", "usageTime">>
    ELSE IF op = "Clear"
    THEN <<"model", "frequency", "temperature", "cachedUsage",
           "cachedCoreUsages", "previousStats">>
    ELSE IF op = "GetCachedUsage" THEN <<"cachedUsage", "cachedCoreUsages">>
    ELSE <<"cachedUsage", "usageTime">>

\* sync.RWMutex: Lock waits for the writer and every reader to leave
CanLock_shared(m) == m.writer = 0

CanLock(m) == m.writer = 0 /\ m.readers = {}

\* sync.RWMutex: RLock waits for the writer to leave
CanRLock(m) == m.writer = 0

IdleTask ==
    [pc |-> "idle", op |-> "none", usage |-> Percent(0), cores |-> <<>>,
     stamp |-> 0, k |-> 1, got |-> <<>>]

InitLock ==
    /\ mutex = [writer |-> 0, readers |-> {}]
    /\ shared = NewCPUCache
    /\ task = [t \in Cycles |-> IdleTask]
    /\ committed = {NewCPUCache}
    /\ issued = 0

CallOp(t, op, usage, cores) ==
    /\ task[t].pc = "idle"
    /\ issued < MaxOps
    /\ issued' = issued + 1
    /\ task' = [task EXCEPT ![t] =
                    [pc |-> "wait", op |-> op, usage |-> usage,
                     cores |-> cores, stamp |-> issued + 1, k |-> 1,
                     got |-> <<>>]]
    /\ UNCHANGED <<mutex, shared, committed>>
    /\ UNCHANGED lockRest

CallSetCachedUsage(t) ==
    \E p \in UsagePairs : CallOp(t, "SetCachedUsage", p.usage, p.cores)

CallClear(t) == CallOp(t, "Clear", Percent(0), <<>>)

CallGetCachedUsage(t) == CallOp(t, "GetCachedUsage", Percent(0), <<>>)

CallIsUsageCacheValid(t) == CallOp(t, "IsUsageCacheValid", Percent(0), <<>>)

\* c.mutex.Lock()
Lock(t) ==
    /\ task[t].pc = "wait"
    /\ task[t].op \in Writers
    /\ CanLock(mutex)
    /\ mutex' = [mutex EXCEPT !.writer = t]
    /\ task' = [task EXCEPT ![t].pc = "hold"]
    /\ UNCHANGED <<shared, committed, issued>>
    /\ UNCHANGED lockRest

\* c.mutex.RLock()
RLock(t) ==
    /\ task[t].pc = "wait"
    /\ task[t].op \notin Writers
    /\ CanRLock(mutex)
    /\ mutex' = [mutex EXCEPT !.readers = @ \cup {t}]
    /\ task' = [task EXCEPT ![t].pc = "hold"]
    /\ UNCHANGED <<shared, committed, issued>>
    /\ UNCHANGED lockRest

\* the cache as the operation of cycle t leaves it
Written(c, tk) ==
    IF tk.op = "SetCachedUsage"
    THEN SetCachedUsage(c, tk.usage, tk.cores, tk.stamp)
    ELSE Clear(c)

\* one assignment of a writing operation
WriteField(t) ==
    /\ task[t].pc = "hold"
    /\ task[t].op \in Writers
    /\ task[t].k <= Len(FieldsOf(task[t].op))
    /\ LET field == FieldsOf(task[t].op)[task[t].k]
       IN  shared' = [shared EXCEPT ![field] = Written(shared, task[t])[field]]
    /\ task' = [task EXCEPT ![t].k = @ + 1]
    /\ UNCHANGED <<mutex, committed, issued>>
    /\ UNCHANGED lockRest

\* one field read of a reading operation
ReadField(t) ==
    /\ task[t].pc = "hold"
    /\ task[t].op \notin Writers
    /\ task[t].k <= Len(FieldsOf(task[t].op))
    /\ LET field == FieldsOf(task[t].op)[task[t].k]
           got == task[t].got
       IN  task' = [task EXCEPT
                       ![t].k = @ + 1,
                       ![t].got = [f \in DOMAIN got \cup {field} |->
                                      IF f = field THEN shared[field]
                                      ELSE got[f]]]
    /\ UNCHANGED <<mutex, shared, committed, issued>>
    /\ UNCHANGED lockRest

\* the deferred c.mutex.Unlock()
Unlock(t) ==
    /\ task[t].pc = "hold"
    /\ task[t].op \in Writers
    /\ task[t].k > Len(FieldsOf(task[t].op))
    /\ mutex' = [mutex EXCEPT !.writer = 0]
    /\ committed' = committed \cup {shared}
    /\ task' = [task EXCEPT ![t].pc = "idle"]
    /\ UNCHANGED <<shared, issued>>
    /\ UNCHANGED lockRest

\* the deferred c.mutex.RUnlock(); the operation returns what it read
RUnlock(t) ==
    /\ task[t].pc = "hold"
    /\ task[t].op \notin Writers
    /\ task[t].k > Len(FieldsOf(task[t].op))
    /\ mutex' = [mutex EXCEPT !.readers = @ \ {t}]
    /\ task' = [task EXCEPT ![t].pc = "idle"]
    /\ UNCHANGED <<shared, committed, issued>>
    /\ UNCHANGED lockRest

NextLock ==
    \E t \in Cycles :
        \/ CallSetCachedUsage(t)
        \/ CallClear(t)
        \/ CallGetCachedUsage(t)
        \/ CallIsUsageCacheValid(t)
        \/ Lock(t)
        \/ RLock(t)
        \/ WriteField(t)
        \/ ReadField(t)
        \/ Unlock(t)
        \/ RUnlock(t)

InitLockSpec ==
    /\ IdleCalc /\ IdleCollector /\ InitCopy /\ IdleSnapshot
    /\ InitLock /\ IdleParse /\ IdleTemp /\ IdleReader
    /\ IdleApp /\ IdleView

SpecLock == InitLockSpec /\ [][NextLock]_vars

\* what a reading operation has read is what one completed write left
ReadTogether(tk) ==
    \E c \in committed : \A f \in DOMAIN tk.got : tk.got[f] = c[f]

\* C16: a writer holds the mutex alone (no reader and no other writer is
\* inside while it assigns its fields), so the fields a reading operation
\* reads are the ones one completed write left behind: GetCachedUsage
\* returns an overall usage and a per-core list stored together by one
\* SetCachedUsage or reset together by one Clear (or the initial empty pair).
C16_WritesAreExclusive ==
    /\ mutex.writer # 0 => mutex.readers = {}
    /\ \A t \in DOMAIN task :
           /\ (task[t].pc = "hold" /\ task[t].op \in Writers)
                  => mutex.writer = t
           /\ task[t].op \in {"GetCachedUsage", "IsUsageCacheValid"}
                  => ReadTogether(task[t])
           /\ (task[t].op = "GetCachedUsage" /\ task[t].k > 2)
                  => \/ \E p \in UsagePairs :
                            /\ task[t].got["cachedUsage"] = p.usage
                            /\ task[t].got["cachedCoreUsages"] = p.cores
                     \/ /\ task[t].got["cachedUsage"] = Percent(0)
                        /\ task[t].got["cachedCoreUsages"] = <<>>

\* C16 witness: a GetCachedUsage that waited for a SetCachedUsage of another
\* cycle has returned the pair that call stored.
C16_Witness ==
    \E t \in DOMAIN task, p \in UsagePairs :
        /\ task[t].op = "GetCachedUsage" /\ task[t].pc = "idle"
        /\ task[t].stamp > 1
        /\ task[t].got = [cachedUsage |-> p.usage,
                          cachedCoreUsages |-> p.cores]

\* --------------------------------------------- the setters one by one
\* Each step is one set on the cache; time.Now() of the n-th set is n.
SetModel ==
    /\ issued < MaxOps
    /\ issued' = issued + 1
    /\ \E m \in {"Ryzen 5", "Core i7"} :
           shared' = SetCachedModel(shared, m, issued + 1)
    /\ UNCHANGED <<mutex, task, committed>>
    /\ UNCHANGED lockRest

SetFrequency ==
    /\ issued < MaxOps
    /\ issued' = issued + 1
    /\ \E f \in {2400, 3000} :
           shared' = SetCachedFrequency(shared, f, issued + 1)
    /\ UNCHANGED <<mutex, task, committed>>
    /\ UNCHANGED lockRest

SetTemperature ==
    /\ issued < MaxOps
    /\ issued' = issued + 1
    /\ \E temp \in {45500, 60000} :
           shared' = SetCachedTemperature(shared, temp, issued + 1)
    /\ UNCHANGED <<mutex, task, committed>>
    /\ UNCHANGED lockRest

SetUsage ==
    /\ issued < MaxOps
    /\ issued' = issued + 1
    /\ \E p \in UsagePairs :
           shared' = SetCachedUsage(shared, p.usage, p.cores, issued + 1)
    /\ UNCHANGED <<mutex, task, committed>>
    /\ UNCHANGED lockRest

SetPrevious ==
    /\ issued < MaxOps
    /\ issued' = issued + 1
    /\ \E stats \in {BootStat, [k \in {"cpu"} |-> Tick(BootStat["cpu"], TRUE)]} :
           shared' = SetPreviousStats(shared, stats, issued + 1)
    /\ UNCHANGED <<mutex, task, committed>>
    /\ UNCHANGED lockRest

NextSet ==
    SetModel \/ SetFrequency \/ SetTemperature \/ SetUsage \/ SetPrevious

InitSetSpec ==
    /\ IdleCalc /\ IdleCollector /\ InitCopy /\ IdleSnapshot
    /\ IdleLock /\ IdleParse /\ IdleTemp /\ IdleReader
    /\ IdleApp /\ IdleView

SpecSet == InitSetSpec /\ [][NextSet]_vars

\* the fields of each cache family, the capture time last
FamilyFields ==
    {<<"model", "modelTime">>, <<"frequency", "frequencyTime">>,
     <<"temperature", "temperatureTime">>,
     <<"cachedUsage", "cachedCoreUsages", "usageTime">>,
     <<"previousStats", "previousTime">>}

\* C27: a set changes fields of exactly one cache family, gives that
\* family's capture time the time of the set, and leaves the value and the
\* capture time of every other family as they were.
C27_SetTouchesOneFamily ==
    [][issued' = issued + 1 =>
          \E F \in FamilyFields :
              /\ shared'[F[Len(F)]] = issued'
              /\ \A G \in FamilyFields \ {F} :
                     \A i \in DOMAIN G : shared'[G[i]] = shared[G[i]]]_vars

\* C27 witness: model, frequency and temperature set one after the other,
\* each capture time still the time of its own set.
C27_Witness ==
    /\ shared.modelTime = 1 /\ shared.model # ""
    /\ shared.frequencyTime = 2 /\ shared.frequency # 0
    /\ shared.temperatureTime = 3 /\ shared.temperature # 0

\* ------------------------------------------------- parsing /proc/stat
\* A line is its first token (name) and the tokens after it (fields); a
\* token that strconv.ParseUint rejects is BadNumber.
MaxFields == 8

MaxToken == 1

Tokens == {BadNumber} \cup (0 .. MaxToken)

Min(a, b) == IF a < b THEN a ELSE b

RECURSIVE SumTimes(_, _)
SumTimes(times, i) ==
    IF i > Len(times) THEN 0
    ELSE (times[i] + SumTimes(times, i + 1)) % Modulus

\* total and idle of the parsed values: idle is what stands at indices 3
\* and 4 of the parsed list
TimesOf(times) ==
    [Total |-> SumTimes(times, 1),
     Idle |-> ((IF Len(times) >= 4 THEN times[4] ELSE 0)
               + (IF Len(times) >= 5 THEN times[5] ELSE 0)) % Modulus]

IsNumber(token) == token # BadNumber

\* cpu.go parseCPUTimes: a token that does not parse is left out
parseCPUTimes(fields) ==
    LET times == SelectSeq(SubSeq(fields, 1, Min(Len(fields), 7)), IsNumber)
    IN  IF Len(times) < 4 THEN ZeroTimes ELSE TimesOf(times)

\* part_000 parseCPUTimes: a token that does not parse is an error
parseCPUTimesCtx(fields) ==
    LET head == SubSeq(fields, 1, Min(Len(fields), 10))
    IN  IF Len(fields) < 4 \/ \E i \in DOMAIN head : ~IsNumber(head[i])
        THEN [times |-> ZeroTimes, err |-> TRUE]
        ELSE [times |-> TimesOf(head), err |-> FALSE]

HasCPUPrefix(line) == line.name \in {"cpu"} \cup CoreKeys

\* cpu.go getCurrentCPUStats on a readable file, from line i on
RECURSIVE ScanProcStat(_, _, _)
ScanProcStat(lines, i, stats) ==
    IF i > Len(lines) THEN stats
    ELSE IF ~HasCPUPrefix(lines[i]) \/ Len(lines[i].fields) + 1 < 5
    THEN ScanProcStat(lines, i + 1, stats)
    ELSE LET times == parseCPUTimes(lines[i].fields)
         IN  IF times.Total > 0
             THEN ScanProcStat(lines, i + 1,
                      [k \in DOMAIN stats \cup {lines[i].name} |->
                          IF k = lines[i].name THEN times ELSE stats[k]])
             ELSE ScanProcStat(lines, i + 1, stats)

\* part_000 getCurrentCPUStats on a readable file, from line i on
RECURSIVE ScanProcStatCtx(_, _, _)
ScanProcStatCtx(lines, i, stats) ==
    IF i > Len(lines) THEN stats
    ELSE IF ~HasCPUPrefix(lines[i]) \/ Len(lines[i].fields) + 1 < 5
    THEN ScanProcStatCtx(lines, i + 1, stats)
    ELSE LET r == parseCPUTimesCtx(lines[i].fields)
         IN  IF ~r.err /\ r.times.Total > 0
             THEN ScanProcStatCtx(lines, i + 1,
                      [k \in DOMAIN stats \cup {lines[i].name} |->
                          IF k = lines[i].name THEN r.times ELSE stats[k]])
             ELSE ScanProcStatCtx(lines, i + 1, stats)

StatLine(name, fields) == [name |-> name, fields |-> fields]

\* the lines around the line under study: the aggregate line, a line of
\* another kind, and the line of the last core
AggregateLine == StatLine("cpu", <<1, 0, 1, 1, 1, 0, 0>>)

OtherLine == StatLine("intr", <<1, 1, 1, 1, 1>>)

LastCoreLine == StatLine(CoreKey(NumCPU - 1), <<0, 0, 1, 1, 0, 0, 0>>)

FieldLists == UNION {[1 .. n -> Tokens] : n \in 0 .. MaxFields}

\* a file whose core-0 line is any list of tokens
StatTexts ==
    {<<AggregateLine, StatLine(CoreKey(0), f), OtherLine, LastCoreLine>> :
        f \in FieldLists}

InitParse ==
    /\ statText \in StatTexts
    /\ records = NoRecords

\* cpu.go getCurrentCPUStats
ReadProcStat ==
    /\ ~records.read
    /\ records' = [read |-> TRUE, by |-> "cpu.go",
                   stats |-> ScanProcStat(statText, 1, EmptyStats)]
    /\ UNCHANGED statText
    /\ UNCHANGED parseRest

\* part_000 getCurrentCPUStats
ReadProcStatCtx ==
    /\ ~records.read
    /\ records' = [read |-> TRUE, by |-> "part_000",
                   stats |-> ScanProcStatCtx(statText, 1, EmptyStats)]
    /\ UNCHANGED statText
    /\ UNCHANGED parseRest

NextParse == ReadProcStat \/ ReadProcStatCtx

InitParseSpec ==
    /\ IdleCalc /\ IdleCollector /\ InitCopy /\ IdleSnapshot
    /\ IdleLock /\ InitParse /\ IdleTemp /\ IdleReader
    /\ IdleApp /\ IdleView

SpecParse == InitParseSpec /\ [][NextParse]_vars

\* the token at position i (from 0) of a line's fields, 0 when it is
\* missing or no number
TickField(line, i) ==
    IF i + 1 <= Len(line.fields) /\ IsNumber(line.fields[i + 1])
    THEN line.fields[i + 1] ELSE 0

\* user, nice, system, idle, iowait, irq, softirq
TickPositions == 0 .. 6

Usable(line) ==
    Cardinality({i \in TickPositions :
                    i + 1 <= Len(line.fields) /\ IsNumber(line.fields[i + 1])})

RECURSIVE TickSum(_, _)
TickSum(line, i) ==
    IF i \notin TickPositions THEN 0
    ELSE TickField(line, i) + TickSum(line, i + 1)

\* C17: after a read of the CPU accounting source, every line with the CPU
\* prefix that has at least 4 usable numeric tick fields and a sum of tick
\* fields > 0 has a record with total = that sum and idle = the tokens at
\* positions 3 and 4 of the line's fields; any other line has no record.
C17_RecordOfLine ==
    records.read =>
        \A n \in DOMAIN statText :
            LET line == statText[n]
                total == TickSum(line, 0)
            IN  HasCPUPrefix(line) =>
                    IF Usable(line) >= 4 /\ total > 0
                    THEN /\ line.name \in DOMAIN records.stats
                         /\ records.stats[line.name] =
                                [Total |-> total,
                                 Idle |-> TickField(line, 3)
                                          + TickField(line, 4)]
                    ELSE line.name \notin DOMAIN records.stats

WellFormed(line) ==
    /\ Len(line.fields) >= 7
    /\ \A i \in DOMAIN line.fields : IsNumber(line.fields[i])

\* truncated below 4 fields, or holding a token that is no number
Malformed(line) ==
    \/ Len(line.fields) < 4
    \/ \E i \in DOMAIN line.fields : ~IsNumber(line.fields[i])

Without(lines, n) ==
    SubSeq(lines, 1, n - 1) \o SubSeq(lines, n + 1, Len(lines))

\* C18: when one line of the source is truncated or malformed and the
\* others are well formed, the read yields exactly the records it yields
\* for the source without that line.
C18_MalformedLineIsSkipped ==
    records.read =>
        \A n \in DOMAIN statText :
            (/\ HasCPUPrefix(statText[n]) /\ Malformed(statText[n])
             /\ \A k \in DOMAIN statText \ {n} :
                    HasCPUPrefix(statText[k]) => WellFormed(statText[k]))
            => records.stats =
                   (IF records.by = "cpu.go"
                    THEN ScanProcStat(Without(statText, n), 1, EmptyStats)
                    ELSE ScanProcStatCtx(Without(statText, n), 1, EmptyStats))

\* ------------------------------------------- reading the temperature
\* The sensor file holds a number (raw); temperatures are kept in
\* millidegrees, so 45500 stands for 45.5 degrees.
MaxRaw == 160

RawReadings ==
    (-2 .. MaxRaw) \cup {1000 * d : d \in 1 .. MaxRaw} \cup {45500, 1001}

InitTemp ==
    /\ reading \in [present : BOOLEAN, raw : RawReadings]
    /\ reported = NoReport

\* cpu.go getCPUTemperature
ReadTemperature ==
    /\ ~reported.read
    /\ reported' = [read |-> TRUE, by |-> "cpu.go",
                    temp |-> getCPUTemperature(reading), err |-> FALSE]
    /\ UNCHANGED reading
    /\ UNCHANGED tempRest

\* part_000 getCPUTemperature with a live context
ReadTemperatureCtx ==
    /\ ~reported.read
    /\ LET r == getCPUTemperatureCtx(reading, FALSE)
       IN  reported' = [read |-> TRUE, by |-> "part_000",
                        temp |-> r.temp, err |-> r.err]
    /\ UNCHANGED reading
    /\ UNCHANGED tempRest

NextTemp == ReadTemperature \/ ReadTemperatureCtx

InitTempSpec ==
    /\ IdleCalc /\ IdleCollector /\ InitCopy /\ IdleSnapshot
    /\ IdleLock /\ IdleParse /\ InitTemp /\ IdleReader
    /\ IdleApp /\ IdleView

SpecTemp == InitTempSpec /\ [][NextTemp]_vars

\* the reading in millidegrees: above 1000 it is millidegrees already
Normalized(raw) == IF raw > 1000 THEN raw ELSE raw * 1000

\* 0 to 150 degrees
Plausible(temp) == temp >= 0 /\ temp <= 150 * 1000

\* C19: the temperature read from a sensor file is the reading normalized
\* to degrees (a reading above 1000 divided by 1000) when that lies in
\* [0,150], and the reading is rejected (nothing but the default 0 is
\* reported) when it does not; what is reported is never outside [0,150].
C19_TemperatureInRange ==
    (reported.read /\ reading.present) =>
        /\ Plausible(reported.temp)
        /\ IF Plausible(Normalized(reading.raw))
           THEN reported.temp = Normalized(reading.raw)
           ELSE reported.temp = 0

\* ---------------------------------------------- scanning /proc/cpuinfo
\* A line is its key ("model name", "cpu MHz" or another), whether it has a
\* colon, and the text after the colon: a model, or for "cpu MHz" a number
\* (BadNumber when strconv.ParseFloat rejects it).
MaxInfoLines == 3

InfoLine(key, colon, value) == [key |-> key, colon |-> colon, value |-> value]

ModelLines ==
    {InfoLine("model name", TRUE, "Ryzen 5"),
     InfoLine("model name", TRUE, "Core i7"),
     InfoLine("model name", FALSE, "")}

FreqLines ==
    {InfoLine("cpu MHz", TRUE, f) : f \in {BadNumber, 0, 2400, 3000}}
    \cup {InfoLine("cpu MHz", FALSE, 0)}

InfoLines == ModelLines \cup FreqLines \cup {InfoLine("flags", TRUE, "")}

InfoTexts == UNION {[1 .. n -> InfoLines] : n \in 0 .. MaxInfoLines}

\* the loop of cpu.go getCPUInfo, from line i on
RECURSIVE ScanCPUInfo(_, _, _, _)
ScanCPUInfo(lines, i, modelName, freq) ==
    IF i > Len(lines) THEN [model |-> modelName, freq |-> freq]
    ELSE LET line == lines[i]
             m == IF line.key = "model name" /\ line.colon THEN line.value
                  ELSE modelName
             f == IF line.key = "cpu MHz" /\ line.colon
                     /\ line.value # BadNumber
                  THEN line.value ELSE freq
         IN  IF m # "Unknown CPU" /\ f # 0 THEN [model |-> m, freq |-> f]
             ELSE ScanCPUInfo(lines, i + 1, m, f)

\* the loop of part_000 getCPUInfo with a live context, from line i on
RECURSIVE ScanCPUInfoCtx(_, _, _)
ScanCPUInfoCtx(lines, i, acc) ==
    IF i > Len(lines) \/ (acc.foundModel /\ acc.foundFreq)
    THEN [model |-> acc.model, freq |-> acc.freq]
    ELSE LET line == lines[i]
         IN  IF ~acc.foundModel /\ line.key = "model name"
             THEN ScanCPUInfoCtx(lines, i + 1,
                      IF line.colon
                      THEN [acc EXCEPT !.model = line.value,
                                       !.foundModel = TRUE]
                      ELSE acc)
             ELSE IF ~acc.foundFreq /\ line.key = "cpu MHz"
             THEN ScanCPUInfoCtx(lines, i + 1,
                      IF line.colon /\ line.value # BadNumber
                      THEN [acc EXCEPT !.freq = line.value,
                                       !.foundFreq = TRUE]
                      ELSE acc)
             ELSE ScanCPUInfoCtx(lines, i + 1, acc)

InitInfo ==
    /\ given \in InfoTexts
    /\ answer = NoAnswer

\* cpu.go getCPUInfo on a readable file
ReadCPUInfo ==
    /\ ~answer.done
    /\ LET found == ScanCPUInfo(given, 1, "Unknown CPU", 0)
           r == getCPUInfo([err |-> FALSE, model |-> found.model,
                            freq |-> found.freq])
       IN  answer' = [done |-> TRUE, by |-> "cpu.go", model |-> r.model,
                      freq |-> r.freq]
    /\ UNCHANGED given
    /\ UNCHANGED readerRest

\* part_000 getCPUInfo on a readable file
ReadCPUInfoCtx ==
    /\ ~answer.done
    /\ LET found == ScanCPUInfoCtx(given, 1,
                        [model |-> "Unknown CPU", freq |-> 0,
                         foundModel |-> FALSE, foundFreq |-> FALSE])
           r == getCPUInfoCtx([err |-> FALSE, model |-> found.model,
                               freq |-> found.freq], FALSE)
       IN  answer' = [done |-> TRUE, by |-> "part_000", model |-> r.model,
                      freq |-> r.freq]
    /\ UNCHANGED given
    /\ UNCHANGED readerRest

NextInfo == ReadCPUInfo \/ ReadCPUInfoCtx

InitInfoSpec ==
    /\ IdleCalc /\ IdleCollector /\ InitCopy /\ IdleSnapshot
    /\ IdleLock /\ IdleParse /\ IdleTemp /\ InitInfo
    /\ IdleApp /\ IdleView

SpecInfo == InitInfoSpec /\ [][NextInfo]_vars

\* an occurrence of a key: a line of that key with a colon and, for the
\* frequency, a number after it
Occurs(line, key) ==
    /\ line.key = key
    /\ line.colon
    /\ key = "cpu MHz" => line.value # BadNumber

\* the value of the first occurrence of a key, otherwise the default
FirstValue(lines, key, default) ==
    IF \E i \in DOMAIN lines : Occurs(lines[i], key)
    THEN lines[CHOOSE i \in DOMAIN lines :
                   /\ Occurs(lines[i], key)
                   /\ \A j \in 1 .. i - 1 : ~Occurs(lines[j], key)].value
    ELSE default

\* C23: the identity read from the source is the value of its first
\* "model name" line and of its first "cpu MHz" line, whatever later lines
\* of these keys hold, and "Unknown CPU" / 0 for a key that does not occur.
C23_FirstOccurrenceWins ==
    answer.done =>
        /\ answer.model = FirstValue(given, "model name", "Unknown CPU")
        /\ answer.freq = FirstValue(given, "cpu MHz", 0)

\* ------------------------------------------- CPU share of a process
\* /proc/<pid>/stat of a process: the number of its fields, utime, stime
\* and starttime in ticks; the machine's uptime in seconds and whether
\* /proc/uptime and the aggregate line of /proc/stat can be read.
TicksPerSecond == 100

ProcessStats ==
    [fields : {10, 16, 22, 52}, utime : {0, 50, 150, 10000000},
     stime : {0, 50, 150}, starttime : {0, 100, 1000},
     uptime : {0, 1, 5, 10}, uptimeOK : BOOLEAN, statOK : BOOLEAN]

\* process.go getProcessCPUPercent
getProcessCPUPercent(p) ==
    IF p.fields > 15 THEN Ratio(p.utime + p.stime, 100000)
    ELSE Percent(0)

\* part_000 getProcessCPUPercent
getProcessCPUPercentCtx(p) ==
    LET runtime == p.uptime * TicksPerSecond - p.starttime
        cpuUsage == Ratio(100 * (p.utime + p.stime), runtime)
    IN  IF p.fields < 22 \/ ~p.uptimeOK \/ ~p.statOK \/ runtime <= 0
        THEN Percent(0)
        ELSE IF cpuUsage.num > 100 * cpuUsage.den THEN Percent(100)
        ELSE cpuUsage

InitProcess ==
    /\ given \in ProcessStats
    /\ answer = NoAnswer

ReadProcessCPU ==
    /\ ~answer.done
    /\ answer' = [done |-> TRUE, by |-> "process.go",
                  percent |-> getProcessCPUPercent(given)]
    /\ UNCHANGED given
    /\ UNCHANGED readerRest

ReadProcessCPUCtx ==
    /\ ~answer.done
    /\ answer' = [done |-> TRUE, by |-> "part_000",
                  percent |-> getProcessCPUPercentCtx(given)]
    /\ UNCHANGED given
    /\ UNCHANGED readerRest

NextProcess == ReadProcessCPU \/ ReadProcessCPUCtx

InitProcessSpec ==
    /\ IdleCalc /\ IdleCollector /\ InitCopy /\ IdleSnapshot
    /\ IdleLock /\ IdleParse /\ IdleTemp /\ InitProcess
    /\ IdleApp /\ IdleView

SpecProcess == InitProcessSpec /\ [][NextProcess]_vars

\* the ticks between the start of the process and now
ElapsedTicks(p) == p.uptime * TicksPerSecond - p.starttime

\* C24: the CPU percentage of a process is never above 100, and for a
\* process whose stat line is complete, whose sources are readable and
\* which has run for a positive time it is 100 * (utime + stime) divided by
\* the ticks elapsed since its start, or 100 when that is more.
C24_ProcessShareOfOneCore ==
    answer.done =>
        /\ answer.percent.num <= 100 * answer.percent.den
        /\ (given.fields >= 22 /\ given.uptimeOK /\ given.statOK
               /\ ElapsedTicks(given) > 0)
           => LET share == Ratio(100 * (given.utime + given.stime),
                                 ElapsedTicks(given))
              IN  answer.percent =
                      IF share.num > 100 * share.den THEN Percent(100)
                      ELSE share

\* ------------------------------------------- usage reads that overlap
\* Every tick starts a collection in a goroutine of its own, on the one
\* collector of the App: a collection that outlasts the second overlaps the
\* next.  A usage read is a sequence of cache operations, each under the
\* mutex for itself, with the read of /proc/stat between them; the cycles
\* interleave between any two of them.
MaxReads == 2   \* usage reads started, over both cycles

IdleRead ==
    [pc |-> "idle", currentStats |-> EmptyStats, previousStats |-> EmptyStats,
     usage |-> Percent(0), cores |-> <<>>, branch |-> "none"]

overlapRest ==
    <<calcVars, generation, advances, procStat, cpuinfo, sensor, slow, cache,
      last, stored, copyVars, snapshotVars, mutex, committed, issued,
      parseVars, tempVars, readerVars, appVars, viewVars>>

InitOverlap ==
    /\ mutex = [writer |-> 0, readers |-> {}]
    /\ shared = NewCPUCache
    /\ task = [p \in Cycles |-> IdleRead]
    /\ committed = {}
    /\ issued = 0

\* getCachedCPUUsage is entered: s.cpuCache.IsUsageCacheValid()
EnterUsageRead(p) ==
    /\ task[p].pc = "idle"
    /\ calls < MaxReads
    /\ calls' = calls + 1
    /\ task' = [task EXCEPT ![p] =
                    [IdleRead EXCEPT
                       !.pc = IF IsUsageCacheValid(shared, now)
                              THEN "cached" ELSE "read"]]
    /\ UNCHANGED <<now, shared>>
    /\ UNCHANGED overlapRest

\* return s.cpuCache.GetCachedUsage(), of a valid cache or behind the
\* 100 ms gate
ReturnCached(p) ==
    /\ task[p].pc \in {"cached", "tooSoon"}
    /\ task' = [task EXCEPT ![p].pc = "idle",
                            ![p].branch = task[p].pc,
                            ![p].usage = shared.cachedUsage,
                            ![p].cores = shared.cachedCoreUsages]
    /\ UNCHANGED <<now, calls, shared>>
    /\ UNCHANGED overlapRest

\* currentStats := s.getCurrentCPUStats()
ReadCurrent(p) ==
    /\ task[p].pc = "read"
    /\ task' = [task EXCEPT
                  ![p].pc = "has",
                  ![p].currentStats =
                      IF generation = "cpu.go"
                      THEN getCurrentCPUStats(procStat, TRUE, NoLine)
                      ELSE getCurrentCPUStatsCtx(procStat, TRUE, NoLine).stats]
    /\ UNCHANGED <<now, calls, shared>>
    /\ UNCHANGED overlapRest

\* if !s.cpuCache.HasPreviousStats()
TestPrevious(p) ==
    /\ task[p].pc = "has"
    /\ task' = [task EXCEPT
                  ![p].pc = IF HasPreviousStats(shared) THEN "previous"
                            ELSE "seed"]
    /\ UNCHANGED <<now, calls, shared>>
    /\ UNCHANGED overlapRest

\* s.cpuCache.SetPreviousStats(currentStats); return 0, make(...)
SeedCache(p) ==
    /\ task[p].pc = "seed"
    /\ shared' = SetPreviousStats(shared, task[p].currentStats, now)
    /\ task' = [task EXCEPT
                  ![p].pc = "idle",
                  ![p].branch = "seed",
                  ![p].cores =
                      Zeros(Max(Cardinality(DOMAIN task[p].currentStats) - 1,
                                0))]
    /\ UNCHANGED <<now, calls>>
    /\ UNCHANGED overlapRest

\* previousStats, _ := s.cpuCache.GetPreviousStats()
TakePrevious(p) ==
    /\ task[p].pc = "previous"
    /\ task' = [task EXCEPT ![p].pc = "gate",
                            ![p].previousStats = GetPreviousStats(shared)]
    /\ UNCHANGED <<now, calls, shared>>
    /\ UNCHANGED overlapRest

\* the 100 ms gate and, behind it, the delta
PassGate(p) ==
    /\ task[p].pc = "gate"
    /\ IF GetTimeSinceLastUsageUpdate(shared, now) < MinSampleGap
       THEN task' = [task EXCEPT ![p].pc = "tooSoon"]
       ELSE \E order \in Orders :
              LET prev == task[p].previousStats
                  cur == task[p].currentStats
              IN  task' =
                    [task EXCEPT
                       ![p].pc = "store",
                       ![p].usage =
                           IF generation = "cpu.go"
                           THEN calculateUsage(Lookup(prev, "cpu"),
                                               Lookup(cur, "cpu"))
                           ELSE calculateUsageWithValidation(
                                    Lookup(prev, "cpu"), Lookup(cur, "cpu")),
                       ![p].cores =
                           IF generation = "cpu.go"
                           THEN CoreUsages(prev, cur, order, 1)
                           ELSE CoreUsagesCtx(prev, cur, 0)]
    /\ UNCHANGED <<now, calls, shared>>
    /\ UNCHANGED overlapRest

\* s.cpuCache.SetPreviousStats(currentStats)
StoreCurrent(p) ==
    /\ task[p].pc = "store"
    /\ shared' = SetPreviousStats(shared, task[p].currentStats, now)
    /\ task' = [task EXCEPT ![p].pc = "usage"]
    /\ UNCHANGED <<now, calls>>
    /\ UNCHANGED overlapRest

\* s.cpuCache.SetCachedUsage(overallUsage, coreUsages); return
StoreUsage(p) ==
    /\ task[p].pc = "usage"
    /\ shared' = SetCachedUsage(shared, task[p].usage, task[p].cores, now)
    /\ task' = [task EXCEPT ![p].pc = "idle", ![p].branch = "delta"]
    /\ UNCHANGED <<now, calls>>
    /\ UNCHANGED overlapRest

NextOverlap ==
    \/ Advance
    \/ Work
    \/ \E p \in Cycles :
         \/ EnterUsageRead(p)
         \/ ReturnCached(p)
         \/ ReadCurrent(p)
         \/ TestPrevious(p)
         \/ SeedCache(p)
         \/ TakePrevious(p)
         \/ PassGate(p)
         \/ StoreCurrent(p)
         \/ StoreUsage(p)

InitOverlapSpec ==
    /\ IdleCalc /\ InitCopy /\ IdleSnapshot
    /\ InitCollector
    /\ cpuinfo.model = "Ryzen 5" /\ cpuinfo.freq = 2400 /\ slow = 0
    /\ InitOverlap /\ IdleParse /\ IdleTemp /\ IdleReader
    /\ IdleApp /\ IdleView

SpecOverlap == InitOverlapSpec /\ [][NextOverlap]_vars

\* a sample that is no newer than another: none of its counters is ahead
NoNewer(older, newer) ==
    \A k \in DOMAIN older \cap DOMAIN newer :
        older[k].Total <= newer[k].Total

\* C30: when the usage reads of two cycles overlap, the previous sample of
\* every delta is no newer than its current sample, and no two cycles both
\* seed the cache as a first read.
C30_OverlappingReadsKeepOrder ==
    /\ \A p \in DOMAIN task :
           task[p].pc \in {"store", "usage"} =>
               NoNewer(task[p].previousStats, task[p].currentStats)
    /\ \A p, q \in DOMAIN task :
           (task[p].branch = "seed" /\ task[q].branch = "seed") => p = q

\* ------------------------------------------------- the program's loop
\* The terminal runtime hands App.Update one message at a time, in the
\* order the messages arrived, and runs the commands Update returns: a
\* tea.Tick command delivers a tickMsg one second later, an updateStats
\* command delivers the collected statistics when the collection returns,
\* tea.Quit ends the program.
MaxRunning == 2   \* collections in flight at once
MaxTyped == 2     \* messages from the terminal waiting in the queue

\* the messages of the terminal: keys and window sizes
Typed == {"q", "ctrl+c", "key", "resize"}

Count(seq, S) == Cardinality({i \in DOMAIN seq : seq[i] \in S})

\* App.Update on a tickMsg that schedules the collection and no next tick
Update_forgetsTick(msg) ==
    CASE msg \in {"q", "ctrl+c"} -> <<"quit">>
      [] msg = "tick" -> <<"updateStats">>
      [] OTHER -> <<>>

\* App.Update: the commands it returns for a message.  The keys other than
\* q and ctrl+c, and the window sizes, change the view only.
Update(msg) ==
    CASE msg \in {"q", "ctrl+c"} -> <<"quit">>
      [] msg = "tick" -> <<"updateStats", "tick">>
      [] OTHER -> <<>>

\* App.Init: the first collection and the first tick are scheduled
AppInit ==
    /\ program = NoProgram
    /\ program' = [started |-> TRUE, msgs |-> <<>>, timer |-> TRUE,
                   running |-> 1, quit |-> FALSE, loaded |-> FALSE,
                   handled |-> "none", beat |-> 0]
    /\ UNCHANGED appRest

Live == program.started /\ ~program.quit

\* App.tick: the second is over, the tickMsg arrives
TimerFires ==
    /\ Live
    /\ program.timer
    /\ program.running + Count(program.msgs, {"stats"}) < MaxRunning
    /\ program' = [program EXCEPT !.timer = FALSE,
                                  !.msgs = Append(@, "tick")]
    /\ UNCHANGED appRest

\* App.updateStats: GetSystemStats and GetProcessList have returned, their
\* results arrive as one message
CollectorReturns ==
    /\ Live
    /\ program.running > 0
    /\ program' = [program EXCEPT !.running = @ - 1,
                                  !.msgs = Append(@, "stats")]
    /\ UNCHANGED appRest

\* the terminal sends a key or a window size
Terminal(msg) ==
    /\ Live
    /\ Count(program.msgs, Typed) < MaxTyped
    /\ program' = [program EXCEPT !.msgs = Append(@, msg)]
    /\ UNCHANGED appRest

\* the runtime hands the oldest message to App.Update and starts the
\* commands it returns
HandleMessage ==
    /\ Live
    /\ program.msgs # <<>>
    /\ LET msg == Head(program.msgs)
           cmds == Update(msg)
       IN program' =
            [program EXCEPT
               !.msgs = Tail(@),
               !.loaded = IF msg = "stats" THEN TRUE ELSE @,
               !.running = @ + Count(cmds, {"updateStats"}),
               !.timer = IF Count(cmds, {"tick"}) > 0 THEN TRUE ELSE @,
               !.quit = Count(cmds, {"quit"}) > 0,
               !.handled = msg,
               !.beat = IF msg = "tick" THEN 1 - @ ELSE @]
    /\ UNCHANGED appRest

NextApp ==
    \/ AppInit
    \/ TimerFires
    \/ CollectorReturns
    \/ \E msg \in Typed : Terminal(msg)
    \/ HandleMessage

InitAppSpec ==
    IdleCalc /\ IdleCollector /\ InitCopy /\ IdleSnapshot /\ IdleReaders

SpecApp == InitAppSpec /\ [][NextApp]_vars

\* The runtime handles every message it has queued, a timer that is set
\* fires, and a collection that was started returns; the terminal may stay
\* silent for ever.
FairApp ==
    /\ SpecApp
    /\ WF_vars(HandleMessage)
    /\ WF_vars(TimerFires)
    /\ WF_vars(CollectorReturns)

TickHandled(b) ==
    program.started /\ program.handled = "tick" /\ program.beat = b

Quit == program.started /\ program.quit

\* C28: while the program has not quit, a tick that was handled is followed
\* by a later statistics update and by a later tick.
C28_TickKeepsTheLoopGoing ==
    \A b \in {0, 1} :
        /\ TickHandled(b) ~> ((program.started /\ program.handled = "stats")
                              \/ Quit)
        /\ TickHandled(b) ~> (TickHandled(1 - b) \/ Quit)

\* the collection a handled tick scheduled has been delivered
C28_Witness ==
    /\ Live
    /\ program.beat = 1
    /\ program.handled = "stats"
    /\ program.running = 0
    /\ Count(program.msgs, {"stats"}) = 0

\* ------------------------------------------------- the App on the screen
\* The runtime hands a message to App.Update and then draws App.View(); View
\* calls getVisibleTabs (through renderTabs) and applyVerticalScroll, which
\* both write fields of the App.
MaxLines == 3     \* lines of content a tab renders
MaxProcs == 2     \* processes in a process list

\* len(name) of "Overview", "CPU", "Memory", "Processes", "Network", "Disk",
\* "Battery"
TabNameLen == <<8, 3, 6, 9, 7, 4, 7>>

NumTabs == Len(TabNameLen)

\* the index of the Processes tab
ProcessesTab == 3

\* the rows reserved for title, tabs, help and margins
ReservedHeight == 8

\* the window sizes of a terminal: none yet, room for one tab, room for
\* three
Widths == {0, 20, 50}

Heights == {0, 10}

Keys ==
    {"left", "right", "shift+left", "shift+right", "up", "down", "pgup",
     "pgdown", "home", "end"}

NewApp ==
    [started |-> TRUE, activeTab |-> 0, tabScrollOffset |-> 0,
     verticalScrollOffset |-> 0, contentHeight |-> 0, width |-> 0,
     height |-> 0, selectedRow |-> 0, processes |-> 0,
     loading |-> TRUE, indices |-> <<>>, lines |-> 0, startLine |-> 0,
     endLine |-> 0]

estimatedTabWidth(i) == TabNameLen[i + 1] + 6

\* the loop over the tabs from index i on
RECURSIVE VisibleFrom(_, _, _, _)
VisibleFrom(i, currentWidth, availableWidth, visibleIndices) ==
    IF i >= NumTabs THEN visibleIndices
    ELSE IF currentWidth + estimatedTabWidth(i) > availableWidth
            /\ Len(visibleIndices) > 0
    THEN visibleIndices
    ELSE VisibleFrom(i + 1, currentWidth + estimatedTabWidth(i),
                     availableWidth, Append(visibleIndices, i))

getVisibleTabsRaw(a) ==
    IF a.width <= 0
    THEN [indices |-> <<>>, canScrollLeft |-> FALSE, canScrollRight |-> FALSE]
    ELSE LET visibleIndices ==
                 VisibleFrom(a.tabScrollOffset, 0, a.width - 10, <<>>)
         IN  [indices |-> visibleIndices,
              canScrollLeft |-> a.tabScrollOffset > 0,
              canScrollRight |->
                  a.tabScrollOffset + Len(visibleIndices) < NumTabs]

ensureActiveTabVisible(a) ==
    IF a.activeTab < a.tabScrollOffset
    THEN [a EXCEPT !.tabScrollOffset = a.activeTab]
    ELSE LET visibleIndices == getVisibleTabsRaw(a).indices
         IN  IF Len(visibleIndices) > 0
                /\ a.activeTab > visibleIndices[Len(visibleIndices)]
             THEN [a EXCEPT !.tabScrollOffset = Max(0, a.activeTab - 2)]
             ELSE a

\* getVisibleTabs: the App after the call (a) and what the call returns
getVisibleTabs(a) ==
    IF a.width <= 0
    THEN [a |-> a, indices |-> <<>>, canScrollLeft |-> FALSE,
          canScrollRight |-> FALSE]
    ELSE LET b == ensureActiveTabVisible(a)
             r == getVisibleTabsRaw(b)
         IN  [a |-> b, indices |-> r.indices,
              canScrollLeft |-> r.canScrollLeft,
              canScrollRight |-> r.canScrollRight]

getContentAreaHeight(a) == Max(1, a.height - ReservedHeight)

getMaxScrollOffset(a) ==
    IF a.contentHeight <= getContentAreaHeight(a) THEN 0
    ELSE a.contentHeight - getContentAreaHeight(a)

\* a clamp that keeps the offset from falling below 0 only
clampVerticalScroll_floorOnly(a) ==
    [a EXCEPT !.verticalScrollOffset = Max(0, a.verticalScrollOffset)]

clampVerticalScroll(a) ==
    [a EXCEPT !.verticalScrollOffset =
                  Max(0, Min(a.verticalScrollOffset, getMaxScrollOffset(a)))]

\* applyVerticalScroll on a content of n lines: the App after the call and
\* the lines [startLine, endLine) it shows
applyVerticalScroll(a, n) ==
    LET b == clampVerticalScroll([a EXCEPT !.contentHeight = n])
    IN  IF n <= getContentAreaHeight(b)
        THEN [b EXCEPT !.lines = n, !.startLine = 0, !.endLine = n]
        ELSE [b EXCEPT !.lines = n,
                       !.startLine = b.verticalScrollOffset,
                       !.endLine =
                           Min(b.verticalScrollOffset
                                      + getContentAreaHeight(b), n)]

\* App.View when the active tab renders n lines
View(a, n) ==
    IF a.width = 0 THEN [a EXCEPT !.loading = TRUE]
    ELSE LET tabs == getVisibleTabs(a)
         IN  applyVerticalScroll(
                 [tabs.a EXCEPT !.loading = FALSE, !.indices = tabs.indices],
                 n)

\* App.Update on a tea.KeyMsg
UpdateKey(a, key) ==
    LET scrollAmount == Max(1, getContentAreaHeight(a) \div 2)
    IN
    CASE key = "left" ->
           IF a.activeTab > 0
           THEN [a EXCEPT !.activeTab = @ - 1, !.verticalScrollOffset = 0]
           ELSE a
      [] key = "right" ->
           IF a.activeTab < NumTabs - 1
           THEN [a EXCEPT !.activeTab = @ + 1, !.verticalScrollOffset = 0]
           ELSE a
      [] key = "shift+left" ->
           IF a.tabScrollOffset > 0
           THEN [a EXCEPT !.tabScrollOffset = @ - 1] ELSE a
      [] key = "shift+right" ->
           LET tabs == getVisibleTabs(a)
           IN  IF tabs.canScrollRight
               THEN [tabs.a EXCEPT !.tabScrollOffset = @ + 1] ELSE tabs.a
      [] key = "up" ->
           IF a.activeTab = ProcessesTab
           THEN IF a.selectedRow > 0
                THEN [a EXCEPT !.selectedRow = @ - 1] ELSE a
           ELSE IF a.verticalScrollOffset > 0
                THEN [a EXCEPT !.verticalScrollOffset = @ - 1] ELSE a
      [] key = "down" ->
           IF a.activeTab = ProcessesTab
           THEN IF a.selectedRow < a.processes - 1
                THEN [a EXCEPT !.selectedRow = @ + 1] ELSE a
           ELSE clampVerticalScroll([a EXCEPT !.verticalScrollOffset = @ + 1])
      [] key = "pgup" ->
           [a EXCEPT !.verticalScrollOffset = Max(0, @ - scrollAmount)]
      [] key = "pgdown" ->
           clampVerticalScroll(
               [a EXCEPT !.verticalScrollOffset = @ + scrollAmount])
      [] key = "home" -> [a EXCEPT !.verticalScrollOffset = 0]
      [] OTHER -> [a EXCEPT !.verticalScrollOffset = getMaxScrollOffset(a)]

\* App.Update on a tea.WindowSizeMsg
UpdateWindowSize(a, w, h) == [a EXCEPT !.width = w, !.height = h]

\* App.Update on the collected statistics with a list of n processes
UpdateStats(a, n) == [a EXCEPT !.processes = n]

\* NewApp() and the first View
StartView ==
    /\ view = NoView
    /\ \E n \in 1 .. MaxLines : view' = View(NewApp, n)
    /\ UNCHANGED viewRest

PressKey ==
    /\ view # NoView
    /\ \E key \in Keys, n \in 1 .. MaxLines :
         view' = View(UpdateKey(view, key), n)
    /\ UNCHANGED viewRest

ResizeWindow ==
    /\ view # NoView
    /\ \E w \in Widths, h \in Heights, n \in 1 .. MaxLines :
         view' = View(UpdateWindowSize(view, w, h), n)
    /\ UNCHANGED viewRest

ShowStats ==
    /\ view # NoView
    /\ \E p \in 0 .. MaxProcs, n \in 1 .. MaxLines :
         view' = View(UpdateStats(view, p), n)
    /\ UNCHANGED viewRest

NextView == StartView \/ PressKey \/ ResizeWindow \/ ShowStats

InitViewSpec ==
    IdleCalc /\ IdleCollector /\ InitCopy /\ IdleSnapshot /\ IdleReaders

SpecView == InitViewSpec /\ [][NextView]_vars

Drawn == view # NoView /\ ~view.loading /\ view.width > 0

\* C37: with a positive terminal width, after getVisibleTabs has returned the
\* active tab is one of the visible tab indices and tabScrollOffset is within
\* [0, number of tabs - 1].
C37_ActiveTabVisible ==
    Drawn =>
        /\ \E i \in DOMAIN view.indices : view.indices[i] = view.activeTab
        /\ view.tabScrollOffset >= 0
        /\ view.tabScrollOffset <= NumTabs - 1

\* C38: when applyVerticalScroll has returned, the line window it selected
\* satisfies 0 <= start <= end <= number of content lines and
\* verticalScrollOffset is within [0, getMaxScrollOffset()].
C38_ScrollWindowInContent ==
    Drawn =>
        /\ 0 <= view.startLine
        /\ view.startLine <= view.endLine
        /\ view.endLine <= view.lines
        /\ view.verticalScrollOffset >= 0
        /\ view.verticalScrollOffset <= getMaxScrollOffset(view)

\* C38 witness: a content longer than the window, scrolled to its bottom
C38_Witness ==
    /\ Drawn
    /\ view.lines > getContentAreaHeight(view)
    /\ view.startLine > 0
    /\ view.endLine = view.lines
    /\ view.verticalScrollOffset = getMaxScrollOffset(view)

\* C39: whenever the process list is not empty, selectedRow is an index of
\* it.
C39_SelectedRowInList ==
    (view # NoView /\ view.processes > 0) =>
        /\ 0 <= view.selectedRow
        /\ view.selectedRow < view.processes

\* ------------------------------------- who owns the previous-stats map
\* Maps are reference values: heap[a] is the content of the map at address
\* a.  The contents a caller may hand to SetPreviousStats:
MaxMaps == 4

CopyKeys == {"cpu", CoreKey(0)}

CopyTimes == {[Total |-> 2, Idle |-> 1], [Total |-> 5, Idle |-> 3]}

CopyMaps == UNION {[ks -> CopyTimes] : ks \in SUBSET CopyKeys}

\* what a caller writes into a map it was handed
Scribble == [Total |-> 9, Idle |-> 9]

\* the statement statsCopy[k] = v for every k, v of the map at address p,
\* into a map made at the fresh address a; ret = the address returned
GetPreviousStatsCopy_alias(h, p, a) == [heap |-> h, ret |-> p]

GetPreviousStatsCopy(h, p, a) ==
    [heap |-> [i \in 1 .. a |->
                  IF i = a THEN [k \in DOMAIN h[p] |-> h[p][k]] ELSE h[i]],
     ret |-> a]

CopyGet ==
    /\ Len(heap) < MaxMaps
    /\ LET r == GetPreviousStatsCopy(heap, prevRef, Len(heap) + 1)
       IN  /\ heap' = r.heap
           /\ handed' = r.ret
    /\ UNCHANGED prevRef
    /\ UNCHANGED copyRest

\* SetPreviousStats(stats): the caller's map itself becomes previousStats
CopySet ==
    /\ Len(heap) < MaxMaps
    /\ \E m \in CopyMaps :
         /\ heap' = Append(heap, m)
         /\ prevRef' = Len(heap) + 1
    /\ UNCHANGED handed
    /\ UNCHANGED copyRest

\* the caller of GetPreviousStats adds, changes or removes an entry of the
\* map it was handed
CopyMutate ==
    /\ handed # 0
    /\ \E k \in CopyKeys :
         \/ heap' = [heap EXCEPT ![handed] =
                        [j \in DOMAIN @ \cup {k} |->
                            IF j = k THEN Scribble ELSE @[j]]]
         \/ /\ k \in DOMAIN heap[handed]
            /\ heap' = [heap EXCEPT ![handed] =
                           [j \in DOMAIN @ \ {k} |-> @[j]]]
    /\ UNCHANGED <<prevRef, handed>>
    /\ UNCHANGED copyRest

NextCopy == CopyGet \/ CopySet \/ CopyMutate

InitCopySpec ==
    IdleCalc /\ IdleCollector /\ InitCopy /\ IdleSnapshot /\ IdleReaders

SpecCopy == InitCopySpec /\ [][NextCopy]_vars

\* C12: a step in which the holder of a map returned by GetPreviousStats
\* adds, changes or removes entries of it (no map is allocated) leaves the
\* content of the cache's previous-stats map, which later GetPreviousStats
\* calls and delta computations read, unchanged.
C12_ReturnedMapIsCopy ==
    [][Len(heap') = Len(heap) => heap'[prevRef'] = heap[prevRef]]_vars

\* C12 witness: the handed map was scribbled on and the cache's map, which
\* is not empty, shows none of it.
C12_Witness ==
    /\ handed # 0
    /\ \E k \in DOMAIN heap[handed] : heap[handed][k] = Scribble
    /\ heap[prevRef] # EmptyStats
    /\ \A k \in DOMAIN heap[prevRef] : heap[prevRef][k] # Scribble

\* the caller of SetPreviousStats goes on writing into the map it passed
CopyMutatePassed ==
    /\ prevRef > 1
    /\ \E k \in CopyKeys :
         heap' = [heap EXCEPT ![prevRef] =
                     [j \in DOMAIN @ \cup {k} |->
                         IF j = k THEN Scribble ELSE @[j]]]
    /\ UNCHANGED <<prevRef, handed>>
    /\ UNCHANGED copyRest

NextAlias == NextCopy \/ CopyMutatePassed

SpecAlias == InitCopySpec /\ [][NextAlias]_vars

\* C35: a step in which a caller writes into a map it passed to
\* SetPreviousStats or was handed by GetPreviousStats (no cache operation is
\* called) leaves what the cache's previous-stats map holds, and so what
\* later cache reads return, unchanged.
C35_NoSharedStorage ==
    [][(Len(heap') = Len(heap) /\ prevRef' = prevRef) =>
          \A k \in DOMAIN heap[prevRef] \cup DOMAIN heap'[prevRef] :
              /\ k \in DOMAIN heap[prevRef] \cap DOMAIN heap'[prevRef]
              /\ heap'[prevRef][k] = heap[prevRef][k]]_vars

\* ------------------------------------------- the calculator on its own
\* tick values of the samples handed to the calculator: small ones, the
\* 1000/700 scenario of the spec, and the top of the counter range
SampleTicks == (0 .. MaxTick) \cup {300, 1000, 2000, Modulus - 1}

\* a parsed record has Idle <= Total (idle and iowait are two of the
\* summed fields)
Samples == {s \in [Total : SampleTicks, Idle : SampleTicks] : s.Idle <= s.Total}

InitCalc ==
    /\ calcPrev \in Samples
    /\ calcCur \in Samples
    /\ calcUsage = NoResult
    /\ calcValidated = NoResult
    /\ InitCollector
    /\ InitCopy
    /\ IdleSnapshot
    /\ IdleReaders

CalcUsage ==
    /\ calcUsage = NoResult
    /\ calcUsage' = calculateUsage(calcPrev, calcCur)
    /\ UNCHANGED <<calcPrev, calcCur, calcValidated>>
    /\ UNCHANGED calcRest

CalcUsageWithValidation ==
    /\ calcValidated = NoResult
    /\ calcValidated' = calculateUsageWithValidation(calcPrev, calcCur)
    /\ UNCHANGED <<calcPrev, calcCur, calcUsage>>
    /\ UNCHANGED calcRest

NextCalc == CalcUsage \/ CalcUsageWithValidation

SpecCalc == InitCalc /\ [][NextCalc]_vars

\* ------------------------------------------------------- calculator claims
InRange(u) == 0 <= u.num /\ u.num <= 100 * u.den

BothCalculated == calcUsage # NoResult /\ calcValidated # NoResult

\* C1: for every pair of samples with current.total > previous.total, both
\* calculateUsage and calculateUsageWithValidation return a value in [0,100].
C1_UsageInRange ==
    (calcCur.Total > calcPrev.Total) =>
        /\ (calcUsage # NoResult => InRange(calcUsage))
        /\ (calcValidated # NoResult => InRange(calcValidated))

\* C1 witness: the total advanced, the idle counter went backwards (the
\* unsigned difference wraps), and the clamp of calculateUsage produced 100.
C1_Witness ==
    /\ BothCalculated
    /\ calcCur.Total > calcPrev.Total
    /\ calcCur.Idle < calcPrev.Idle
    /\ calcUsage = Percent(100)
    /\ InRange(calcValidated)

\* C2: when current.total <= previous.total the calculation returns 0.
C2_NoAdvanceGivesZero ==
    (calcCur.Total <= calcPrev.Total) =>
        /\ (calcUsage # NoResult => calcUsage = Percent(0))
        /\ (calcValidated # NoResult => calcValidated = Percent(0))

\* C3: when the idle advance exceeds the total advance (unsigned 64-bit
\* differences), the calculation returns 0.
C3_IdleAboveTotalGivesZero ==
    (SubU64(calcCur.Idle, calcPrev.Idle) > SubU64(calcCur.Total, calcPrev.Total)) =>
        /\ (calcUsage # NoResult => calcUsage = Percent(0))
        /\ (calcValidated # NoResult => calcValidated = Percent(0))

\* C4: with totalDiff > 0 and 0 <= idleDiff <= totalDiff (plain integer
\* differences) the usage is the fraction 100 * (totalDiff - idleDiff) /
\* totalDiff, for both calculators.
C4_UsageIsBusyShare ==
    LET totalDiff == calcCur.Total - calcPrev.Total
        idleDiff == calcCur.Idle - calcPrev.Idle
        Is(u) == u = Ratio(100 * (totalDiff - idleDiff), totalDiff)
    IN  (totalDiff > 0 /\ 0 <= idleDiff /\ idleDiff <= totalDiff) =>
            /\ (calcUsage # NoResult => Is(calcUsage))
            /\ (calcValidated # NoResult => Is(calcValidated))

\* C4 witness: total advanced by 1000, idle by 700, both calculators say 30.
C4_Witness ==
    /\ calcCur.Total - calcPrev.Total = 1000
    /\ calcCur.Idle - calcPrev.Idle = 700
    /\ calcUsage = Percent(30)
    /\ calcValidated = Percent(30)

\* C25: two identical samples give a usage of 0, for both calculators.
C25_SameSampleGivesZero ==
    (calcCur = calcPrev) =>
        /\ (calcUsage # NoResult => calcUsage = Percent(0))
        /\ (calcValidated # NoResult => calcValidated = Percent(0))

\* C25 witness: both calculators have run on twice the same sample, one
\* with counters above 0.
C25_Witness ==
    /\ BothCalculated
    /\ calcCur = calcPrev
    /\ calcCur.Total > 0 /\ calcCur.Idle > 0
    /\ calcUsage = Percent(0)
    /\ calcValidated = Percent(0)

====
